---- MODULE Spec2Model ----
(***************************************************************************)
(* Faceted-value extraction of milli's new indexer                         *)
(* (crates/milli/src/update/new/extract/faceted/extract_facets.rs):        *)
(* one worker runs FacetedExtractorData::process over its changes; each    *)
(* change is walked by extract_document_facets, whose callback is          *)
(* facet_fn_with_options; the per-change reconciler DelAddFacetValue is    *)
(* flushed to the sender by send_data.                                     *)
(*                                                                         *)
(* Bytes are integers 0..255, byte strings are sequences of bytes, a str   *)
(* is a sequence of chars and a char is the sequence of its UTF-8 bytes.   *)
(***************************************************************************)
EXTENDS Integers, Sequences, FiniteSets, TLC

(***************************************************************************)
(* Bounds of the model.                                                    *)
(***************************************************************************)
\* Emissions the walker makes in one run of a worker (all changes together).
MaxEmit == 4
\* Emissions of one run when the documents draw on every JSON value kind.
MaxEmitKinds == 2
\* crate::MAX_FACET_VALUE_LENGTH, scaled down so that short strings reach it.
MAX_FACET_VALUE_LENGTH == 4
\* Changes the iterator yields in a run of several changes, and the emissions
\* of such a run.
MaxChanges == 2
MaxEmitChanges == 4
\* Chars of the strs handed to truncate_str on its own.
MaxChars == 3
\* Worker threads of the pool, and the changes and emissions of an extraction
\* by several workers.
MaxThreads == 2
MaxPoolChanges == 2
MaxPoolEmit == 3
\* Database: the threads that hold a clone of it, the calls they make between
\* them.
MaxDbThreads == 2
MaxDbCalls == 3

(***************************************************************************)
(* Byte strings and strs.                                                  *)
(***************************************************************************)
RECURSIVE as_bytes(_)
\* str::as_bytes: the UTF-8 bytes of a str, char after char.
as_bytes(s) == IF s = <<>> THEN <<>> ELSE Head(s) \o as_bytes(Tail(s))

IsCont(b) == b >= 128 /\ b <= 191

RECURSIVE Utf8Chars(_)
\* The chars of a byte string, or << <<>> >> (a str holding an empty char, which
\* no real str holds) at the first byte that starts no well-formed char.
Utf8Chars(bytes) ==
    IF bytes = <<>> THEN <<>>
    ELSE LET b == bytes[1]
             n == IF b < 128 THEN 1
                  ELSE IF b >= 194 /\ b <= 223 THEN 2
                  ELSE IF b >= 224 /\ b <= 239 THEN 3
                  ELSE 0
             wellFormed == /\ n > 0
                           /\ Len(bytes) >= n
                           /\ \A i \in 2..n : IsCont(bytes[i])
         IN  IF ~wellFormed THEN << <<>> >>
             ELSE LET rest == Utf8Chars(SubSeq(bytes, n + 1, Len(bytes)))
                  IN  IF rest # <<>> /\ rest[1] = <<>> THEN << <<>> >>
                      ELSE << SubSeq(bytes, 1, n) >> \o rest

\* A faulty from_utf8, which takes any bytes for a str of one char (C19
\* fails with it).
from_utf8_Unchecked(bytes) ==
    [ok |-> TRUE, s |-> IF bytes = <<>> THEN <<>> ELSE << bytes >>]

\* std::str::from_utf8: Ok(s) for well-formed UTF-8, Err otherwise.
from_utf8(bytes) ==
    LET chars == Utf8Chars(bytes)
    IN  IF chars # <<>> /\ chars[1] = <<>>
        THEN [ok |-> FALSE, s |-> <<>>]
        ELSE [ok |-> TRUE, s |-> chars]

\* char::to_lowercase on the chars of the model: ASCII A..Z and the two-byte
\* Latin-1 capitals (C3 80 .. C3 9E) move to their small letters.
to_lowercase(c) ==
    IF Len(c) = 1 /\ c[1] >= 65 /\ c[1] <= 90 THEN << c[1] + 32 >>
    ELSE IF Len(c) = 2 /\ c[1] = 195 /\ c[2] >= 128 /\ c[2] <= 158 /\ c[2] # 151
         THEN << 195, c[2] + 32 >>
    ELSE c

\* crate::normalize_facet: the normalizer's folding, here its lowercasing.
normalize_facet(s) == [i \in 1..Len(s) |-> to_lowercase(s[i])]

RECURSIVE char_indices(_, _)
\* str::char_indices, the indices only: the byte offset at which each char starts.
char_indices(s, from) ==
    IF s = <<>> THEN <<>> ELSE <<from>> \o char_indices(Tail(s), from + Len(Head(s)))

RECURSIVE take_while_lt(_, _)
\* A faulty take_while, which stops at the limit itself (C13 fails with it).
take_while_lt(idxs, limit) ==
    IF idxs = <<>> \/ Head(idxs) >= limit THEN <<>>
    ELSE <<Head(idxs)>> \o take_while_lt(Tail(idxs), limit)

RECURSIVE take_while_le(_, _)
\* Iterator::take_while(|idx| idx <= &limit): the longest prefix within the limit.
take_while_le(idxs, limit) ==
    IF idxs = <<>> \/ Head(idxs) > limit THEN <<>>
    ELSE <<Head(idxs)>> \o take_while_le(Tail(idxs), limit)

\* The str slice &s[..index], index being a char boundary of s.
str_prefix(s, index) ==
    LET n == CHOOSE k \in 0..Len(s) : Len(as_bytes(SubSeq(s, 1, k))) = index
    IN  SubSeq(s, 1, n)

\* The body of truncate_str for a MAX_FACET_VALUE_LENGTH of max:
\* s.char_indices().map(idx).chain(once(s.len()))
\*   .take_while(|idx| idx <= &max).last(), then &s[..index.unwrap_or(0)].
truncate_at(s, max) ==
    LET kept == take_while_le(char_indices(s, 0) \o << Len(as_bytes(s)) >>, max)
        index == IF kept = <<>> THEN 0 ELSE kept[Len(kept)]
    IN  str_prefix(s, index)

\* truncate_str
truncate_str(s) == truncate_at(s, MAX_FACET_VALUE_LENGTH)

\* FieldId::to_be_bytes (u16) and DocumentId::to_be_bytes (u32).
fid_be(fid) == << (fid \div 256) % 256, fid % 256 >>
docid_be(docid) ==
    << (docid \div 16777216) % 256, (docid \div 65536) % 256,
       (docid \div 256) % 256, docid % 256 >>

(***************************************************************************)
(* f64 values are their eight raw big-endian IEEE-754 bytes.               *)
(***************************************************************************)
F10     == << 64, 36, 0, 0, 0, 0, 0, 0 >>
F20     == << 64, 52, 0, 0, 0, 0, 0, 0 >>
FNeg1   == << 191, 240, 0, 0, 0, 0, 0, 0 >>
FNaN    == << 127, 248, 0, 0, 0, 0, 0, 0 >>
FInf    == << 127, 240, 0, 0, 0, 0, 0, 0 >>
FNegInf == << 255, 240, 0, 0, 0, 0, 0, 0 >>

\* f64::is_finite: the exponent bits are not all ones.
is_finite(f) == ~(f[1] % 128 = 127 /\ f[2] >= 240)

\* The order-preserving half of the codec: every bit flipped when the sign bit
\* is set, the sign bit set otherwise.
f64_into_bytes(f) ==
    IF f[1] >= 128 THEN [i \in 1..8 |-> 255 - f[i]]
    ELSE [i \in 1..8 |-> IF i = 1 THEN f[i] + 128 ELSE f[i]]

\* OrderedF64Codec::serialize_into(n, &mut ordered): Ok with the 16 bytes
\* (ordered half, then the raw bits) for a finite n, Err otherwise.
OrderedF64Codec_serialize_into(f) ==
    IF is_finite(f) THEN [ok |-> TRUE, bytes |-> f64_into_bytes(f) \o f]
    ELSE [ok |-> FALSE, bytes |-> <<>>]

(***************************************************************************)
(* serde_json::Value, as far as the callback looks at it: the kind, the    *)
(* result of Number::as_f64 (<<>> for None), the str of a String, and the  *)
(* number of elements of an Array or an Object.                            *)
(***************************************************************************)
JsonValue(kind, f64, str, len) == [kind |-> kind, f64 |-> f64, str |-> str, len |-> len]

VNull       == JsonValue("Null", <<>>, <<>>, 0)
VBool       == JsonValue("Bool", <<>>, <<>>, 1)
VNumber(f)  == JsonValue("Number", f, <<>>, 0)
VNumberNoF64 == JsonValue("Number", <<>>, <<>>, 0)
VString(s)  == JsonValue("String", <<>>, s, 0)
VArray(n)   == JsonValue("Array", <<>>, <<>>, n)
VObject(n)  == JsonValue("Object", <<>>, <<>>, n)
NoValue     == JsonValue("None", <<>>, <<>>, 0)

\* The strs of the model: "Red", "red", "RÉd" (4 bytes) and "rédé" (6 bytes).
StrRed  == << <<82>>, <<101>>, <<100>> >>
Strred  == << <<114>>, <<101>>, <<100>> >>
StrREd  == << <<82>>, <<195, 137>>, <<100>> >>
Strrede == << <<114>>, <<195, 169>>, <<100>>, <<195, 169>> >>

(***************************************************************************)
(* Events of a run, in the order the worker makes them.                    *)
(*   begin      extract_document_change is entered (op: the change kind)   *)
(*   emit       the walker calls the callback with (fid, value) (res: what *)
(*              the callback returns)                                      *)
(*   cache      cache_fn(key, docid) (op: del | add, kind: the key's tag   *)
(*              byte, bytes: the key after its tag, res: the call's result)*)
(*   rec        facet_fn(fid, value, kind) (op: insert_del | insert_add)   *)
(*   walk_ret   extract_document_facets returns (res)                      *)
(*   send_data  send_data is called                                        *)
(*   send       a sender call (op: the method, bytes: the key, raw: the    *)
(*              value of write_facet_string)                               *)
(*   ret        extract_document_change returns (res)                      *)
(***************************************************************************)
Event(ev, op, kind, fid, docid, bytes, raw, res) ==
    [ev |-> ev, op |-> op, kind |-> kind, fid |-> fid, docid |-> docid,
     bytes |-> bytes, raw |-> raw, res |-> res, value |-> NoValue]

EmitEvent(fid, docid, value, res) ==
    [ev |-> "emit", op |-> "", kind |-> "", fid |-> fid, docid |-> docid,
     bytes |-> <<>>, raw |-> <<>>, res |-> res, value |-> value]

(***************************************************************************)
(* DelAddFacetValue: two maps (fid, value bytes) -> DelAdd.                *)
(***************************************************************************)
EmptyMap == [k \in {} |-> "Addition"]
MapRemove(m, key) == [k \in DOMAIN m \ {key} |-> m[k]]
MapInsert(m, key, v) == [k \in DOMAIN m \cup {key} |-> IF k = key THEN v ELSE m[k]]

\* DelAddFacetValue::new
DelAddFacetValue_new == [strings |-> EmptyMap, f64s |-> EmptyMap]

\* A faulty insert_add, which keeps the entry it stores and drops every other
\* entry of the map (C14 fails with it).
insert_add_LastKeyWins(self, fid, value, kind) ==
    IF kind \notin {"String", "Number"} THEN self
    ELSE LET field == IF kind = "String" THEN "strings" ELSE "f64s"
             cache == self[field]
             key   == <<fid, value>>
         IN  IF key \in DOMAIN cache /\ cache[key] = "Deletion"
             THEN [self EXCEPT ![field] = MapRemove(cache, key)]
             ELSE [self EXCEPT ![field] = MapInsert(EmptyMap, key, "Addition")]

\* A faulty insert_add, which removes the entry of a key it is given again,
\* whatever its tag (C23 fails with it).
insert_add_SecondCallRemoves(self, fid, value, kind) ==
    IF kind \notin {"String", "Number"} THEN self
    ELSE LET field == IF kind = "String" THEN "strings" ELSE "f64s"
             cache == self[field]
             key   == <<fid, value>>
         IN  IF key \in DOMAIN cache
             THEN [self EXCEPT ![field] = MapRemove(cache, key)]
             ELSE [self EXCEPT ![field] = MapInsert(cache, key, "Addition")]

\* A faulty insert_add, which keeps the entries of every kind in the map of
\* the strings (C22 fails with it).
insert_add_KindIgnored(self, fid, value, kind) ==
    LET cache == self.strings
        key   == <<fid, value>>
    IN  IF key \in DOMAIN cache /\ cache[key] = "Deletion"
        THEN [self EXCEPT !.strings = MapRemove(cache, key)]
        ELSE [self EXCEPT !.strings = MapInsert(cache, key, "Addition")]

\* DelAddFacetValue::insert_add
insert_add(self, fid, value, kind) ==
    IF kind \notin {"String", "Number"} THEN self
    ELSE LET field == IF kind = "String" THEN "strings" ELSE "f64s"
             cache == self[field]
             key   == <<fid, value>>
         IN  IF key \in DOMAIN cache /\ cache[key] = "Deletion"
             THEN [self EXCEPT ![field] = MapRemove(cache, key)]
             ELSE [self EXCEPT ![field] = MapInsert(cache, key, "Addition")]

\* DelAddFacetValue::insert_del
insert_del(self, fid, value, kind) ==
    IF kind \notin {"String", "Number"} THEN self
    ELSE LET field == IF kind = "String" THEN "strings" ELSE "f64s"
             cache == self[field]
             key   == <<fid, value>>
         IN  IF key \in DOMAIN cache /\ cache[key] = "Addition"
             THEN [self EXCEPT ![field] = MapRemove(cache, key)]
             ELSE [self EXCEPT ![field] = MapInsert(cache, key, "Deletion")]

\* The facet_fn handed to the callback: DelAddFacetValue::insert_del or ::insert_add.
facet_fn_call(facet_fn, self, fid, value, kind) ==
    IF facet_fn = "insert_del" THEN insert_del(self, fid, value, kind)
    ELSE insert_add(self, fid, value, kind)

\* A faulty send_string, which builds the key from the str as it is, not
\* normalized (C10 fails with it).
send_string_NotNormalized(docid, key, deladd) ==
    LET fid == key[1]
        value == key[2]
        parsed == from_utf8(value)
        buffer == fid_be(fid) \o docid_be(docid) \o as_bytes(truncate_str(parsed.s))
    IN  IF ~parsed.ok THEN <<>>
        ELSE IF deladd = "Deletion"
             THEN << Event("send", "delete_facet_string", "", fid, docid, buffer, <<>>, "Ok") >>
             ELSE << Event("send", "write_facet_string", "", fid, docid, buffer, value, "Ok") >>

\* The sender call send_data makes for one strings entry, none when the value
\* bytes are no UTF-8.
send_string(docid, key, deladd) ==
    LET fid == key[1]
        value == key[2]
        parsed == from_utf8(value)
        buffer == fid_be(fid) \o docid_be(docid)
                    \o as_bytes(truncate_str(normalize_facet(parsed.s)))
    IN  IF ~parsed.ok THEN <<>>
        ELSE IF deladd = "Deletion"
             THEN << Event("send", "delete_facet_string", "", fid, docid, buffer, <<>>, "Ok") >>
             ELSE << Event("send", "write_facet_string", "", fid, docid, buffer, value, "Ok") >>

\* A faulty send_f64, which leaves the docid out of the key of a deletion
\* (C16 fails with it).
send_f64_DeleteWithoutDocid(docid, key, deladd) ==
    LET fid == key[1]
        value == key[2]
        buffer == fid_be(fid) \o docid_be(docid) \o value
    IN  IF deladd = "Deletion"
        THEN << Event("send", "delete_facet_f64", "", fid, docid, fid_be(fid) \o value,
                      <<>>, "Ok") >>
        ELSE << Event("send", "write_facet_f64", "", fid, docid, buffer, <<>>, "Ok") >>

\* The sender call send_data makes for one f64s entry.
send_f64(docid, key, deladd) ==
    LET fid == key[1]
        value == key[2]
        buffer == fid_be(fid) \o docid_be(docid) \o value
    IN  IF deladd = "Deletion"
        THEN << Event("send", "delete_facet_f64", "", fid, docid, buffer, <<>>, "Ok") >>
        ELSE << Event("send", "write_facet_f64", "", fid, docid, buffer, <<>>, "Ok") >>

RECURSIVE send_strings(_, _, _)
send_strings(self, docid, order) ==
    IF order = <<>> THEN <<>>
    ELSE send_string(docid, Head(order), self.strings[Head(order)])
           \o send_strings(self, docid, Tail(order))

RECURSIVE send_f64s(_, _, _)
send_f64s(self, docid, order) ==
    IF order = <<>> THEN <<>>
    ELSE send_f64(docid, Head(order), self.f64s[Head(order)])
           \o send_f64s(self, docid, Tail(order))

\* DelAddFacetValue::send_data with every sender call succeeding: the calls
\* of the strings map, then those of the f64s map, each map in the order its
\* iterator yields the entries (sorder, forder).
send_data(self, docid, sorder, forder) ==
    send_strings(self, docid, sorder) \o send_f64s(self, docid, forder)

\* The orders in which the iterator of a hash map may yield its keys.
IterationOrders(m) ==
    LET n == Cardinality(DOMAIN m)
    IN  { o \in [1..n -> DOMAIN m] : \A i, j \in 1..n : i # j => o[i] # o[j] }

(***************************************************************************)
(* FacetedDocidsExtractor::facet_fn_with_options, the callback of the      *)
(* walker. cache_fn is BalancedCaches::insert_del_u32 or ::insert_add_u32, *)
(* facet_fn is DelAddFacetValue::insert_del or ::insert_add; outcomes are  *)
(* the results of the first and the second cache_fn call. A cache key is   *)
(* its FacetKind tag byte (kind) followed by bytes.                        *)
(***************************************************************************)
CacheCall(cache_fn, kind, fid, docid, bytes, res) ==
    Event("cache", cache_fn, kind, fid, docid, bytes, <<>>, res)

RecCall(facet_fn, kind, fid, docid, value) ==
    Event("rec", facet_fn, kind, fid, docid, value, <<>>, "Ok")

Callback(events, self, res) == [events |-> events, rec |-> self, res |-> res]

\* The Exists key and its write (lines 169-174).
exists_write(cache_fn, docid, fid, outcome) ==
    CacheCall(cache_fn, "Exists", fid, docid, fid_be(fid), outcome)

\* A faulty level0_key, which leaves the level byte out (C8 fails with it).
level0_key_NoLevel(fid, payload) == fid_be(fid) \o payload

\* A level-0 key after its tag: fid - level - payload (lines 190-194, 209-213).
level0_key(fid, payload) == fid_be(fid) \o <<0>> \o payload

\* A faulty arm_number, which returns the error of the codec instead of
\* skipping the number (C9 fails with it).
arm_number_CodecErrorReturned(cache_fn, facet_fn, self, docid, fid, value, outcome) ==
    LET ser == IF value.f64 # <<>>
               THEN OrderedF64Codec_serialize_into(value.f64)
               ELSE [ok |-> FALSE, bytes |-> <<>>]
    IN  IF ser.ok
        THEN Callback(
               << RecCall(facet_fn, "Number", fid, docid, ser.bytes),
                  CacheCall(cache_fn, "Number", fid, docid,
                            level0_key(fid, ser.bytes), outcome) >>,
               facet_fn_call(facet_fn, self, fid, ser.bytes, "Number"),
               outcome)
        ELSE Callback(<<>>, self, "Err")

\* The arm Value::Number (lines 179-199): the reconciler takes the 16 ordered
\* bytes and the Number key is written, when the number has them.
arm_number(cache_fn, facet_fn, self, docid, fid, value, outcome) ==
    LET ser == IF value.f64 # <<>>
               THEN OrderedF64Codec_serialize_into(value.f64)
               ELSE [ok |-> FALSE, bytes |-> <<>>]
    IN  IF ser.ok
        THEN Callback(
               << RecCall(facet_fn, "Number", fid, docid, ser.bytes),
                  CacheCall(cache_fn, "Number", fid, docid,
                            level0_key(fid, ser.bytes), outcome) >>,
               facet_fn_call(facet_fn, self, fid, ser.bytes, "Number"),
               outcome)
        ELSE Callback(<<>>, self, "Ok")

\* The arm Value::String (lines 202-215): the reconciler takes the raw bytes
\* and the String key holds the normalized, truncated str.
arm_string(cache_fn, facet_fn, self, docid, fid, value, outcome) ==
    LET string == as_bytes(value.str)
        truncated == truncate_str(normalize_facet(value.str))
    IN  Callback(
          << RecCall(facet_fn, "String", fid, docid, string),
             CacheCall(cache_fn, "String", fid, docid,
                       level0_key(fid, as_bytes(truncated)), outcome) >>,
          facet_fn_call(facet_fn, self, fid, string, "String"),
          outcome)

\* The arms Value::Null, and Value::Array and Value::Object when empty
\* (lines 218-237): the key of the kind, and nothing for the reconciler.
arm_kind(cache_fn, kind, self, docid, fid, outcome) ==
    Callback(<< CacheCall(cache_fn, kind, fid, docid, fid_be(fid), outcome) >>,
             self, outcome)

\* A faulty match_value, which takes a boolean for a null and writes the Null
\* key for it (C18 fails with it).
match_value_BoolAsNull(cache_fn, facet_fn, self, docid, fid, value, outcome) ==
    IF value.kind = "Number"
    THEN arm_number(cache_fn, facet_fn, self, docid, fid, value, outcome)
    ELSE IF value.kind = "String"
    THEN arm_string(cache_fn, facet_fn, self, docid, fid, value, outcome)
    ELSE IF value.kind \in {"Null", "Bool"}
    THEN arm_kind(cache_fn, "Null", self, docid, fid, outcome)
    ELSE IF value.kind \in {"Array", "Object"} /\ value.len = 0
    THEN arm_kind(cache_fn, "Empty", self, docid, fid, outcome)
    ELSE Callback(<<>>, self, "Ok")

\* The match on the value (lines 176-241).
match_value(cache_fn, facet_fn, self, docid, fid, value, outcome) ==
    IF value.kind = "Number"
    THEN arm_number(cache_fn, facet_fn, self, docid, fid, value, outcome)
    ELSE IF value.kind = "String"
    THEN arm_string(cache_fn, facet_fn, self, docid, fid, value, outcome)
    ELSE IF value.kind = "Null"
    THEN arm_kind(cache_fn, "Null", self, docid, fid, outcome)
    ELSE IF value.kind = "Array" /\ value.len = 0
    THEN arm_kind(cache_fn, "Empty", self, docid, fid, outcome)
    ELSE IF value.kind = "Object" /\ value.len = 0
    THEN arm_kind(cache_fn, "Empty", self, docid, fid, outcome)
    ELSE Callback(<<>>, self, "Ok")

facet_fn_with_options(cache_fn, facet_fn, self, docid, fid, value, outcomes) ==
    LET exists == exists_write(cache_fn, docid, fid, outcomes[1])
        arm == match_value(cache_fn, facet_fn, self, docid, fid, value, outcomes[2])
    IN  IF outcomes[1] = "Err" THEN Callback(<<exists>>, self, "Err")
        ELSE Callback(<<exists>> \o arm.events, arm.rec, arm.res)

(***************************************************************************)
(* The state of one worker.                                                *)
(***************************************************************************)
VARIABLES
    pc,         \* where the worker is: "process" (the head of the loop of
                \* process), "walk" (inside extract_document_facets),
                \* "send_data" (the walks of the change are over), "returned"
                \* (process has returned), "panicked" (the unwrap of line
                \* 155 has panicked)
    change,     \* the change being extracted: its kind and its docid
    walkNo,     \* which walk of the change is running: 1, or 2 (Update, merged)
    rec,        \* del_add_facet_value, the reconciler of the change
    res,        \* res, the result of the last walk of the change
    result,     \* what process returned: "Ok", "Err", or "panic"
    cache,      \* the worker's BalancedCaches: the (cache_fn, key, docid) recorded
    sent,       \* the calls the sender received, in order
    trace,      \* the events of the run, in order
    pending,    \* changes the iterator may still yield
    budget,     \* emissions the documents of the run still hold
    emissions,  \* the (fid, value) pairs the documents of the run are made of
    docids,     \* the ids of the documents the changes of the run are about
    faults,     \* the collaborators that may fail in this run
    fnArg,      \* a function called on its own: its name and its arguments
    fnRet,      \* what that call returned, once it has
    pool,       \* run_extraction with several workers: the datastore of
                \* their caches, what each worker is doing, the changes left
    db,         \* a Database and the threads that call it: the trees of its
                \* sled::Db, its opened map, each thread's call, the calls made
    vdoc        \* a MergedVectorDocument, the iterator iter_vectors returned
                \* for it and what it yielded, the last vectors_for_key call

vars == << pc, change, walkNo, rec, res, result, cache, sent, trace, pending,
           budget, emissions, docids, faults, fnArg, fnRet, pool, db, vdoc >>

\* What the actions of a worker leave alone.
otherVars == << fnArg, fnRet, pool, db, vdoc >>

Change(kind, docid) == [kind |-> kind, docid |-> docid]
NoChange == Change("None", 0)

ChangeKinds == {"Deletion", "Update", "Insertion"}

\* The pairs the documents of a run are made of when the run is about
\* reconciliation: two numbers, two strings that normalize alike and one that
\* is truncated.
ReconcileEmissions ==
    { <<5, VNumber(F10)>>, <<5, VNumber(F20)>>,
      <<3, VString(StrRed)>>, <<3, VString(Strred)>>, <<3, VString(Strrede)>> }

\* Every kind of JSON value the walker may hand to the callback.
AllValues ==
    { VNull, VBool,
      VNumber(F10), VNumber(FNeg1), VNumber(FNaN), VNumber(FInf), VNumber(FNegInf),
      VNumberNoF64,
      VString(<<>>), VString(StrRed), VString(StrREd), VString(Strrede),
      VArray(0), VArray(2), VObject(0), VObject(1) }

KindsEmissions ==
    ({261} \X AllValues) \cup { <<3, VNull>>, <<3, VString(StrRed)>> }

\* The results the cache_fn calls of one callback may have.
CacheOutcomes ==
    IF "cache" \in faults THEN {"Ok", "Err"} \X {"Ok", "Err"} ELSE { <<"Ok", "Ok">> }

\* How many of the sender calls of a flush the sender accepts before its
\* channel is closed: all of them when the sender does not fail.
SenderOutcomes(calls) ==
    IF "sender" \in faults THEN 0..Len(calls) ELSE { Len(calls) }

\* A call of truncate_str or of send_data on its own.
FnCall(fn, s, max, self, docid) ==
    [fn |-> fn, s |-> s, max |-> max, self |-> self, docid |-> docid,
     fid |-> 0, value |-> <<>>, kind |-> ""]

\* A call of insert_add or of insert_del on its own.
InsertCall(fn, self, fid, value, kind) ==
    [fn |-> fn, s |-> <<>>, max |-> 0, self |-> self, docid |-> 0,
     fid |-> fid, value |-> value, kind |-> kind]

FnResult(done, s, calls) ==
    [done |-> done, s |-> s, calls |-> calls, self |-> DelAddFacetValue_new]

\* What insert_add or insert_del left of the reconciler it was called on.
InsertResult(self) == [done |-> TRUE, s |-> <<>>, calls |-> <<>>, self |-> self]

NoCall == FnCall("none", <<>>, 0, DelAddFacetValue_new, 0)

\* run_extraction for a pool of threads worker threads, when it calls extract
\* (lines 363-380): the datastore is an empty ThreadLocal, the extractor holds
\* buckets = rayon::current_num_threads(), no worker has been given a change.
Pool(threads, stream, emits) ==
    [threads   |-> threads,
     buckets   |-> threads,
     datastore |-> [w \in 1..threads |-> [made |-> 0, buckets |-> 0, writes |-> {}]],
     workers   |-> [w \in 1..threads |-> [pc |-> "idle", kind |-> "None", docid |-> 0, walk |-> 0]],
     stream    |-> stream,
     emits     |-> emits,
     ret       |-> [res |-> "running", caches |-> <<>>]]

NoPool == Pool(0, 0, 0)

(***************************************************************************)
(* meilidb-data: a Database, its sled trees and its opened map.            *)
(***************************************************************************)
\* The index names and the schemas the calls of a run are about.
IndexNames == {"a", "b"}
Schemas == {"S1", "S2"}

\* index_name(name)
index_name(name) == "index-" \o name

\* A sled::Tree as far as from_raw and new_from_raw go: whether the sled::Db
\* holds it, what it holds under "schema" and under "word-index" ("" for
\* nothing), and how many times a key of it was set.
Tree(exists, schema, word_index, sets) ==
    [exists |-> exists, schema |-> schema, word_index |-> word_index, sets |-> sets]

NoTree == Tree(FALSE, "", "", 0)

\* The tree of an index an earlier run created and indexed documents in.
StoredTree(schema) == Tree(TRUE, schema, "words", 0)

NoTrees == [rn \in { index_name(n) : n \in IndexNames } |-> NoTree]

\* struct RawIndex: its schema and the tree it is about.
RawIndex(schema, inner) == [schema |-> schema, inner |-> inner]

\* The ArcSwap of the opened map: the HashMap it points to, and which
\* allocation that is (a swap stores a new one).
Opened(map, version) == [map |-> map, version |-> version]

\* What open_index and create_index return: Some(index), None, Ok(index)
\* or Err(err), index being told by its schema.
DbRet(kind, schema, err) == [kind |-> kind, schema |-> schema, err |-> err]

\* A thread that holds a clone of the Database: where it is in the call it
\* makes, the arguments of the call, the raw_index it builds, the opened map
\* it loaded for rcu, and what the Database was like when the call began.
DbThread(at, fn, within, name, schema, raw_index, loaded, registered, pre) ==
    [pc |-> at, fn |-> fn, within |-> within, name |-> name, schema |-> schema,
     raw_index |-> raw_index, loaded |-> loaded, registered |-> registered, pre |-> pre]

IdleThread ==
    DbThread("idle", "", "", "", "", RawIndex("", ""), Opened(<<>>, 0), FALSE,
             [trees |-> NoTrees, opened |-> Opened(<<>>, 0)])

\* Database::start_default on a sled::Db that holds trees, for threads
\* threads that make calls calls between them: nothing is opened yet.
Database(threads, trees, calls) ==
    [trees  |-> trees,
     opened |-> Opened(<<>>, 0),
     th     |-> [t \in 1..threads |-> IdleThread],
     calls  |-> calls,
     log    |-> <<>>]

NoDatabase == Database(0, NoTrees, 0)

(***************************************************************************)
(* milli: a MergedVectorDocument, made of the _vectors of the new version  *)
(* of a document and of what the database holds for the document.          *)
(***************************************************************************)
\* The embedder names the documents and the index of a run are about.
Embedders == {"default", "small"}

\* struct VectorEntry, its embeddings told by where they come from.
VectorEntry(has_configured_embedder, embeddings) ==
    [has_configured_embedder |-> has_configured_embedder, embeddings |-> embeddings]

NoVectorEntry == VectorEntry(FALSE, <<>>)

\* An item of iter_vectors: Ok((name, entry)) or Err(err).
VecOk(name, entry) == [ok |-> TRUE, name |-> name, entry |-> entry, err |-> <<>>]
VecErr(err) == [ok |-> FALSE, name |-> "", entry |-> NoVectorEntry, err |-> err]

\* What vectors_for_key returns: Ok(Some(entry)), Ok(None) or Err(err).
VecRet(kind, entry, err) == [kind |-> kind, entry |-> entry, err |-> err]

\* The sequences of distinct names among names, each with a flag.
FlaggedNames(names) ==
    UNION { { s \in [1..Cardinality(S) -> S \X BOOLEAN] :
                \A i, j \in 1..Cardinality(S) : i # j => s[i][1] # s[j][1] } :
            S \in SUBSET names }

\* Option<VectorDocumentFromVersions>: the RawMap of the _vectors of the new
\* version, an entry being an embedder name and a raw value that
\* entry_from_raw_value parses or not.
NewDoc(some, vectors) == [some |-> some, vectors |-> vectors]

\* Option<VectorDocumentFromDb>: the embedding configs of the index, an
\* entry being the name of the embedder and whether its vectors can be read
\* for the document, and the _vectors field of the stored document.
DbDoc(some, embedding_config, vectors_field) ==
    [some |-> some, embedding_config |-> embedding_config, vectors_field |-> vectors_field]

\* A MergedVectorDocument, the iterator iter_vectors returned for it (how
\* far new_doc_it and db_it have got, seen_fields, whether it has returned
\* None), the items it yielded, and the last call of vectors_for_key.
MergedVectorDocument(new_doc, db_doc) ==
    [new_doc |-> new_doc,
     db      |-> db_doc,
     it      |-> [new_pos |-> 1, db_pos |-> 1, seen_fields |-> {}, done |-> FALSE],
     yielded |-> <<>>,
     lookup  |-> [key |-> "", ret |-> VecRet("", NoVectorEntry, <<>>)]]

\* Neither a new version with _vectors nor a document in the database.
NoVectorDocument ==
    MergedVectorDocument(NewDoc(FALSE, <<>>), DbDoc(FALSE, <<>>, NewDoc(FALSE, <<>>)))

\* No function is called on its own in the run, and there is no pool, no
\* Database and no vector document.
InitNoCall ==
    /\ fnArg = NoCall
    /\ fnRet = FnResult(FALSE, <<>>, <<>>)
    /\ pool = NoPool
    /\ db = NoDatabase
    /\ vdoc = NoVectorDocument

InitWorker ==
    /\ pc = "process"
    /\ change = NoChange
    /\ walkNo = 0
    /\ rec = DelAddFacetValue_new
    /\ res = "Ok"
    /\ result = "running"
    /\ cache = {}
    /\ sent = <<>>
    /\ trace = <<>>

Init ==
    /\ InitWorker
    /\ InitNoCall
    /\ pending = 1
    /\ budget = MaxEmit
    /\ emissions = ReconcileEmissions
    /\ docids = {258}
    /\ faults = {}

InitKinds ==
    /\ InitWorker
    /\ InitNoCall
    /\ pending = 1
    /\ budget = MaxEmitKinds
    /\ emissions = KindsEmissions
    /\ docids = {258}
    /\ faults = {}

\* The pairs the documents are made of in a run of several changes.
ChangesEmissions == { <<3, VString(StrRed)>>, <<5, VNumber(F10)>> }

\* A run of several changes about one document, in which the cache and the
\* sender may fail.
InitChanges ==
    /\ InitWorker
    /\ InitNoCall
    /\ pending = MaxChanges
    /\ budget = MaxEmitChanges
    /\ emissions = ChangesEmissions
    /\ docids = {7}
    /\ faults = {"cache", "sender"}

\* A run of several changes about one document in which neither the cache
\* nor the sender fails: the worker gets to the later changes.
InitSuccessive ==
    /\ InitWorker
    /\ InitNoCall
    /\ pending = MaxChanges
    /\ budget = MaxEmitChanges
    /\ emissions = ChangesEmissions
    /\ docids = {7}
    /\ faults = {}

\* A faulty cache_fn_of, which hands insert_add_u32 to the walk of a Deletion
\* (C7 fails with it).
cache_fn_of_AddOnDeletion(kind, walk) ==
    IF kind = "Update" /\ walk = 1 THEN "insert_del_u32" ELSE "insert_add_u32"

\* A faulty cache_fn_of, which hands insert_add_u32 to the walk of the old
\* document of an Update and insert_del_u32 to that of the new one (C12 fails
\* with it).
cache_fn_of_UpdateSwapped(kind, walk) ==
    IF kind = "Deletion" \/ (kind = "Update" /\ walk = 2)
    THEN "insert_del_u32" ELSE "insert_add_u32"

\* The cache_fn and the facet_fn the closures of extract_document_change pass on.
cache_fn_of(kind, walk) ==
    IF kind = "Deletion" \/ (kind = "Update" /\ walk = 1)
    THEN "insert_del_u32" ELSE "insert_add_u32"

\* A faulty facet_fn_of, which hands insert_add to the walk of a Deletion
\* (C11 fails with it).
facet_fn_of_AddOnDeletion(kind, walk) ==
    IF kind = "Update" /\ walk = 1 THEN "insert_del" ELSE "insert_add"

facet_fn_of(kind, walk) ==
    IF kind = "Deletion" \/ (kind = "Update" /\ walk = 1)
    THEN "insert_del" ELSE "insert_add"

\* What the cache holds after the calls among events that returned Ok.
Recorded(events) ==
    { [cache_fn |-> events[i].op, kind |-> events[i].kind, bytes |-> events[i].bytes,
       docid |-> events[i].docid] :
        i \in { j \in 1..Len(events) : events[j].ev = "cache" /\ events[j].res = "Ok" } }

WalkRet(r) == Event("walk_ret", "", "", 0, change.docid, <<>>, <<>>, r)
Ret(r) == Event("ret", "", "", 0, change.docid, <<>>, <<>>, r)

\* process takes the next change of the iterator and enters
\* extract_document_change: a fresh reconciler, then the first walk.
NextChange(kind, docid) ==
    /\ pc = "process"
    /\ pending > 0
    /\ pending' = pending - 1
    /\ change' = Change(kind, docid)
    /\ rec' = DelAddFacetValue_new
    /\ walkNo' = 1
    /\ pc' = "walk"
    /\ trace' = Append(trace, Event("begin", kind, "", 0, docid, <<>>, <<>>, ""))
    /\ UNCHANGED << res, result, cache, sent, budget, emissions, docids, faults >>
    /\ UNCHANGED otherVars

\* A faulty WalkReturns, which returns the error of any walk at once, as the
\* first walk of an Update does, without send_data (C5 fails with it).
WalkReturns_EveryErrorReturnsAtOnce(r, events) ==
    IF r = "Err"
    THEN /\ pc' = "returned"
         /\ result' = "Err"
         /\ trace' = trace \o events \o << WalkRet(r), Ret("Err") >>
         /\ UNCHANGED << walkNo, res >>
    ELSE IF change.kind = "Update" /\ walkNo = 1
    THEN /\ pc' = "walk"
         /\ walkNo' = 2
         /\ trace' = trace \o events \o << WalkRet(r) >>
         /\ UNCHANGED << res, result >>
    ELSE /\ pc' = "send_data"
         /\ res' = r
         /\ trace' = trace \o events \o << WalkRet(r) >>
         /\ UNCHANGED << walkNo, result >>

\* What follows when a walk returns r, events being what the worker did last:
\* the first walk of an Update returns its error at once (the ? of line 114)
\* or gives way to the second walk; any other walk leaves r in res for send_data.
WalkReturns(r, events) ==
    IF change.kind = "Update" /\ walkNo = 1
    THEN IF r = "Err"
         THEN /\ pc' = "returned"
              /\ result' = "Err"
              /\ trace' = trace \o events \o << WalkRet(r), Ret("Err") >>
              /\ UNCHANGED << walkNo, res >>
         ELSE /\ pc' = "walk"
              /\ walkNo' = 2
              /\ trace' = trace \o events \o << WalkRet(r) >>
              /\ UNCHANGED << res, result >>
    ELSE /\ pc' = "send_data"
         /\ res' = r
         /\ trace' = trace \o events \o << WalkRet(r) >>
         /\ UNCHANGED << walkNo, result >>

\* The walker calls the callback with (fid, value); an error of the callback
\* ends the walk, which returns it.
Emit(fid, value, outcomes) ==
    /\ pc = "walk"
    /\ budget > 0
    /\ budget' = budget - 1
    /\ LET cb == facet_fn_with_options(cache_fn_of(change.kind, walkNo),
                                       facet_fn_of(change.kind, walkNo),
                                       rec, change.docid, fid, value, outcomes)
           events == << EmitEvent(fid, change.docid, value, cb.res) >> \o cb.events
       IN  /\ rec' = cb.rec
           /\ cache' = cache \cup Recorded(cb.events)
           /\ IF cb.res = "Ok"
              THEN /\ trace' = trace \o events
                   /\ UNCHANGED << pc, walkNo, res, result >>
              ELSE WalkReturns("Err", events)
    /\ UNCHANGED << change, sent, pending, emissions, docids, faults >>
    /\ UNCHANGED otherVars

\* The walker has walked the whole document and returns Ok.
WalkOk ==
    /\ pc = "walk"
    /\ WalkReturns("Ok", <<>>)
    /\ UNCHANGED << change, rec, cache, sent, pending, budget, emissions, docids, faults >>
    /\ UNCHANGED otherVars

\* The walker fails on the document (an input error) and returns Err.
WalkErr ==
    /\ pc = "walk"
    /\ WalkReturns("Err", <<>>)
    /\ UNCHANGED << change, rec, cache, sent, pending, budget, emissions, docids, faults >>
    /\ UNCHANGED otherVars

\* A faulty SendData, which leaves the reconciler as it is instead of
\* consuming it (C21 fails with it).
SendData_ReconcilerKept(sorder, forder, n) ==
    /\ pc = "send_data"
    /\ LET calls == send_data(rec, change.docid, sorder, forder)
           called == << Event("send_data", "", "", 0, change.docid, <<>>, <<>>, "Ok") >>
       IN  /\ sent' = sent \o SubSeq(calls, 1, n)
           /\ IF n = Len(calls)
              THEN /\ trace' = trace \o called \o calls \o << Ret(res) >>
                   /\ IF res = "Ok"
                      THEN pc' = "process" /\ UNCHANGED result
                      ELSE pc' = "returned" /\ result' = "Err"
              ELSE /\ trace' = trace \o called \o SubSeq(calls, 1, n)
                                  \o << [calls[n + 1] EXCEPT !.res = "Err"] >>
                   /\ pc' = "panicked"
                   /\ result' = "panic"
    /\ UNCHANGED << change, walkNo, rec, res, cache, pending, budget, emissions, docids, faults >>
    /\ UNCHANGED otherVars

\* A faulty SendData, which drops the error of send_data instead of unwrapping
\* it and goes on as after a flush that succeeded (C15 fails with it).
SendData_SendErrorDropped(sorder, forder, n) ==
    /\ pc = "send_data"
    /\ LET calls == send_data(rec, change.docid, sorder, forder)
           called == << Event("send_data", "", "", 0, change.docid, <<>>, <<>>, "Ok") >>
       IN  /\ sent' = sent \o SubSeq(calls, 1, n)
           /\ trace' = IF n = Len(calls)
                       THEN trace \o called \o calls \o << Ret(res) >>
                       ELSE trace \o called \o SubSeq(calls, 1, n)
                              \o << [calls[n + 1] EXCEPT !.res = "Err"], Ret(res) >>
           /\ IF res = "Ok"
              THEN pc' = "process" /\ UNCHANGED result
              ELSE pc' = "returned" /\ result' = "Err"
    /\ rec' = DelAddFacetValue_new
    /\ UNCHANGED << change, walkNo, res, cache, pending, budget, emissions, docids, faults >>
    /\ UNCHANGED otherVars

\* A faulty SendData, after which process goes on with the next change
\* whatever extract_document_change returned (C20 fails with it).
SendData_ErrorOfChangeDropped(sorder, forder, n) ==
    /\ pc = "send_data"
    /\ LET calls == send_data(rec, change.docid, sorder, forder)
           called == << Event("send_data", "", "", 0, change.docid, <<>>, <<>>, "Ok") >>
       IN  /\ sent' = sent \o SubSeq(calls, 1, n)
           /\ IF n = Len(calls)
              THEN /\ trace' = trace \o called \o calls \o << Ret(res) >>
                   /\ pc' = "process"
                   /\ UNCHANGED result
              ELSE /\ trace' = trace \o called \o SubSeq(calls, 1, n)
                                  \o << [calls[n + 1] EXCEPT !.res = "Err"] >>
                   /\ pc' = "panicked"
                   /\ result' = "panic"
    /\ rec' = DelAddFacetValue_new
    /\ UNCHANGED << change, walkNo, res, cache, pending, budget, emissions, docids, faults >>
    /\ UNCHANGED otherVars

\* Lines 155-156: send_data consumes the reconciler and makes its sender calls
\* up to the first one that fails (the ? of lines 305-318), of which the
\* sender accepts the first n. When all are accepted,
\* extract_document_change returns res, and process goes on with the next
\* change or returns the error; when one fails, the unwrap of line 155 panics.
SendData(sorder, forder, n) ==
    /\ pc = "send_data"
    /\ LET calls == send_data(rec, change.docid, sorder, forder)
           called == << Event("send_data", "", "", 0, change.docid, <<>>, <<>>, "Ok") >>
       IN  /\ sent' = sent \o SubSeq(calls, 1, n)
           /\ IF n = Len(calls)
              THEN /\ trace' = trace \o called \o calls \o << Ret(res) >>
                   /\ IF res = "Ok"
                      THEN pc' = "process" /\ UNCHANGED result
                      ELSE pc' = "returned" /\ result' = "Err"
              ELSE /\ trace' = trace \o called \o SubSeq(calls, 1, n)
                                  \o << [calls[n + 1] EXCEPT !.res = "Err"] >>
                   /\ pc' = "panicked"
                   /\ result' = "panic"
    /\ rec' = DelAddFacetValue_new
    /\ UNCHANGED << change, walkNo, res, cache, pending, budget, emissions, docids, faults >>
    /\ UNCHANGED otherVars

\* The iterator of changes is exhausted: process returns Ok(()).
IterEnd ==
    /\ pc = "process"
    /\ pc' = "returned"
    /\ result' = "Ok"
    /\ UNCHANGED << change, walkNo, rec, res, cache, sent, trace, pending, budget,
                    emissions, docids, faults >>
    /\ UNCHANGED otherVars

\* The iterator yields an Err: the ? of line 50 returns it.
IterErr ==
    /\ pc = "process"
    /\ pending > 0
    /\ pc' = "returned"
    /\ result' = "Err"
    /\ UNCHANGED << change, walkNo, rec, res, cache, sent, trace, pending, budget,
                    emissions, docids, faults >>
    /\ UNCHANGED otherVars

Next ==
    \/ \E kind \in ChangeKinds, docid \in docids : NextChange(kind, docid)
    \/ \E e \in emissions, outcomes \in CacheOutcomes : Emit(e[1], e[2], outcomes)
    \/ WalkOk
    \/ WalkErr
    \/ \E sorder \in IterationOrders(rec.strings), forder \in IterationOrders(rec.f64s) :
          \E n \in SenderOutcomes(send_data(rec, change.docid, sorder, forder)) :
              SendData(sorder, forder, n)
    \/ IterEnd
    \/ IterErr

Spec == Init /\ [][Next]_vars

SpecKinds == InitKinds /\ [][Next]_vars

SpecChanges == InitChanges /\ [][Next]_vars

SpecSuccessive == InitSuccessive /\ [][Next]_vars

(***************************************************************************)
(* truncate_str and send_data called on their own, on arguments of their   *)
(* types: a str and a limit, a DelAddFacetValue and a docid.               *)
(***************************************************************************)
\* Chars of one, two, three and four bytes: a, e acute, the euro sign, the
\* G clef.
Chars == { <<97>>, <<195, 169>>, <<226, 130, 172>>, <<240, 157, 132, 158>> }

Strs(n) == UNION { [1..k -> Chars] : k \in 0..n }

TruncateCalls ==
    { FnCall("truncate_str", s, max, DelAddFacetValue_new, 0) :
        s \in Strs(MaxChars), max \in 0..MAX_FACET_VALUE_LENGTH }

\* Value bytes of a strings entry: two that are UTF-8 ("Red", "r\u00e9d\u00e9")
\* and two that are not (a byte that starts no char, a char cut short).
ValidValues == { as_bytes(StrRed), as_bytes(Strrede) }
InvalidValues == { <<255>>, <<82, 195>> }

Maps(keys) == UNION { [K -> {"Deletion", "Addition"}] : K \in SUBSET keys }

FlushCalls ==
    { FnCall("send_data", <<>>, 0, [strings |-> sm, f64s |-> fm], 7) :
        sm \in Maps({3} \X (ValidValues \cup InvalidValues)),
        fm \in Maps({ <<5, OrderedF64Codec_serialize_into(F10).bytes>> }) }

\* enum FacetKind, as insert_add and insert_del match on it.
FacetKinds == {"Number", "String", "Null", "Empty", "Exists"}

\* Value bytes a key of either map may hold: those of "Red" and the 16 bytes
\* of the number 10.
InsertValues == { as_bytes(StrRed), OrderedF64Codec_serialize_into(F10).bytes }

InsertCalls ==
    { InsertCall(fn, [strings |-> sm, f64s |-> fm], 3, value, kind) :
        fn \in {"insert_add", "insert_del"},
        sm \in Maps({3} \X InsertValues), fm \in Maps({3} \X InsertValues),
        value \in InsertValues, kind \in FacetKinds }

InitFn ==
    /\ InitWorker
    /\ pending = 0
    /\ budget = 0
    /\ emissions = {}
    /\ docids = {}
    /\ faults = {}
    /\ fnArg \in TruncateCalls \cup FlushCalls \cup InsertCalls
    /\ fnRet = FnResult(FALSE, <<>>, <<>>)
    /\ pool = NoPool
    /\ db = NoDatabase
    /\ vdoc = NoVectorDocument

\* truncate_str(s), MAX_FACET_VALUE_LENGTH being fnArg.max.
Truncate ==
    /\ fnArg.fn = "truncate_str"
    /\ ~fnRet.done
    /\ fnRet' = FnResult(TRUE, truncate_at(fnArg.s, fnArg.max), <<>>)
    /\ UNCHANGED << pc, change, walkNo, rec, res, result, cache, sent, trace, pending,
                    budget, emissions, docids, faults, fnArg, pool, db, vdoc >>

\* self.send_data(docid, sender, doc_alloc), the sender accepting every call:
\* the calls it makes, after which it returns Ok(()).
Flush(sorder, forder) ==
    /\ fnArg.fn = "send_data"
    /\ ~fnRet.done
    /\ fnRet' = FnResult(TRUE, <<>>, send_data(fnArg.self, fnArg.docid, sorder, forder))
    /\ UNCHANGED << pc, change, walkNo, rec, res, result, cache, sent, trace, pending,
                    budget, emissions, docids, faults, fnArg, pool, db, vdoc >>

\* self.insert_add(fid, value, kind) or self.insert_del(fid, value, kind).
Insert ==
    /\ fnArg.fn \in {"insert_add", "insert_del"}
    /\ ~fnRet.done
    /\ fnRet' = InsertResult(facet_fn_call(fnArg.fn, fnArg.self, fnArg.fid,
                                           fnArg.value, fnArg.kind))
    /\ UNCHANGED << pc, change, walkNo, rec, res, result, cache, sent, trace, pending,
                    budget, emissions, docids, faults, fnArg, pool, db, vdoc >>

NextFn ==
    \/ Truncate
    \/ Insert
    \/ \E sorder \in IterationOrders(fnArg.self.strings),
          forder \in IterationOrders(fnArg.self.f64s) : Flush(sorder, forder)

SpecFn == InitFn /\ [][NextFn]_vars

(***************************************************************************)
(* run_extraction with several workers. extract gives each worker thread   *)
(* the changes of its share, one at a time; a worker gets its Data from    *)
(* init_data when it is given its first change, and process makes its      *)
(* cache writes through context.data. The walks of a change are followed   *)
(* as far as the caches go.                                                *)
(***************************************************************************)
\* A faulty init_data, which makes a cache of a single bucket (C17 fails
\* with it).
init_data_OneBucket(data, buckets) ==
    [made |-> data.made + 1, buckets |-> 1, writes |-> {}]

\* FacetedExtractorData::init_data: BalancedCaches::new_in(self.buckets, ..).
init_data(data, buckets) ==
    [made |-> data.made + 1, buckets |-> buckets, writes |-> {}]

InitPool ==
    /\ InitWorker
    /\ pending = 0
    /\ budget = 0
    /\ emissions = ChangesEmissions
    /\ docids = {7, 258}
    /\ faults = {}
    /\ fnArg = NoCall
    /\ fnRet = FnResult(FALSE, <<>>, <<>>)
    /\ pool \in { Pool(n, MaxPoolChanges, MaxPoolEmit) : n \in 1..MaxThreads }
    /\ db = NoDatabase
    /\ vdoc = NoVectorDocument

WorkerVars == << pc, change, walkNo, rec, res, result, cache, sent, trace, pending,
                budget, emissions, docids, faults >>

\* extract hands the worker w the next change of its share: the worker gets
\* its Data from init_data if it has none yet, and process enters
\* extract_document_change.
WorkerStart(w, kind, docid) ==
    /\ pool.ret.res = "running"
    /\ pool.stream > 0
    /\ pool.workers[w].pc = "idle"
    /\ pool' = [pool EXCEPT
                  !.stream = @ - 1,
                  !.datastore[w] = IF @.made = 0 THEN init_data(@, pool.buckets) ELSE @,
                  !.workers[w] = [pc |-> "walk", kind |-> kind, docid |-> docid, walk |-> 1]]
    /\ UNCHANGED << WorkerVars, fnArg, fnRet, db, vdoc >>

\* The walker of the worker w calls the callback with (fid, value): the cache
\* writes of facet_fn_with_options go to cached_sorter, which is context.data
\* (line 74), the Data of the worker.
WorkerEmit(w, fid, value) ==
    /\ pool.ret.res = "running"
    /\ pool.workers[w].pc = "walk"
    /\ pool.emits > 0
    /\ LET me == pool.workers[w]
           cb == facet_fn_with_options(cache_fn_of(me.kind, me.walk),
                                       facet_fn_of(me.kind, me.walk),
                                       DelAddFacetValue_new, me.docid, fid, value,
                                       <<"Ok", "Ok">>)
           writes == { [by |-> w, write |-> r] : r \in Recorded(cb.events) }
       IN  pool' = [pool EXCEPT
                     !.emits = @ - 1,
                     !.datastore[w].writes = @ \cup writes]
    /\ UNCHANGED << WorkerVars, fnArg, fnRet, db, vdoc >>

\* A walk of the worker w returns: the walk of the new document follows that
\* of the old one in an Update, otherwise the change is done and the worker
\* is free for its next change.
WorkerWalkReturns(w) ==
    /\ pool.ret.res = "running"
    /\ pool.workers[w].pc = "walk"
    /\ pool' = [pool EXCEPT
                  !.workers[w] = IF @.kind = "Update" /\ @.walk = 1
                                 THEN [@ EXCEPT !.walk = 2]
                                 ELSE [@ EXCEPT !.pc = "idle"]]
    /\ UNCHANGED << WorkerVars, fnArg, fnRet, db, vdoc >>

RECURSIVE into_iter(_, _)
\* datastore.into_iter(): the Data of the threads that have one.
into_iter(datastore, w) ==
    IF w > Len(datastore) THEN <<>>
    ELSE (IF datastore[w].made > 0 THEN << datastore[w] >> ELSE <<>>)
           \o into_iter(datastore, w + 1)

\* extract has returned Ok, every change extracted: run_extraction returns
\* the caches of the datastore (line 393).
PoolReturns ==
    /\ pool.ret.res = "running"
    /\ pool.stream = 0
    /\ \A w \in 1..pool.threads : pool.workers[w].pc = "idle"
    /\ pool' = [pool EXCEPT !.ret = [res |-> "Ok", caches |-> into_iter(pool.datastore, 1)]]
    /\ UNCHANGED << WorkerVars, fnArg, fnRet, db, vdoc >>

\* extract has returned an error, no worker at work any more: the ? of line
\* 390 returns it, and no cache.
PoolFails ==
    /\ pool.ret.res = "running"
    /\ \A w \in 1..pool.threads : pool.workers[w].pc = "idle"
    /\ pool' = [pool EXCEPT !.ret = [res |-> "Err", caches |-> <<>>]]
    /\ UNCHANGED << WorkerVars, fnArg, fnRet, db, vdoc >>

NextPool ==
    \/ \E w \in 1..pool.threads, kind \in ChangeKinds, docid \in docids :
          WorkerStart(w, kind, docid)
    \/ \E w \in 1..pool.threads, e \in emissions : WorkerEmit(w, e[1], e[2])
    \/ \E w \in 1..pool.threads : WorkerWalkReturns(w)
    \/ PoolReturns
    \/ PoolFails

SpecPool == InitPool /\ [][NextPool]_vars

(***************************************************************************)
(* Database::open_index and Database::create_index, called by threads     *)
(* that hold clones of one Database. A step is one access to what the      *)
(* clones share: the opened map (lease, rcu) and the trees of the sled::Db *)
(* (tree_names and open_tree, get, set). The sled calls succeed.           *)
(***************************************************************************)
\* What the sled::Db holds when the Database is started: for every name no
\* tree, or the tree of an index made with one of the schemas.
StartTrees ==
    [ { index_name(n) : n \in IndexNames } -> { NoTree } \cup { StoredTree(s) : s \in Schemas } ]

InitDatabase(threads) ==
    /\ InitWorker
    /\ pending = 0
    /\ budget = 0
    /\ emissions = {}
    /\ docids = {}
    /\ faults = {}
    /\ fnArg = NoCall
    /\ fnRet = FnResult(FALSE, <<>>, <<>>)
    /\ pool = NoPool
    /\ vdoc = NoVectorDocument
    /\ db \in { Database(threads, trees, MaxDbCalls) : trees \in StartTrees }

\* One thread, which makes its calls one after the other.
InitDbSequential == InitDatabase(1)

\* Several threads, whose calls interleave.
InitDbConcurrent == InitDatabase(MaxDbThreads)

NotDbVars == << pc, change, walkNo, rec, res, result, cache, sent, trace, pending,
                budget, emissions, docids, faults, fnArg, fnRet, pool, vdoc >>

\* The call of the thread t returns ret, the Database being left with trees
\* and opened.
Returns(t, me, ret, trees, opened) ==
    db' = [db EXCEPT
             !.trees = trees,
             !.opened = opened,
             !.th[t] = IdleThread,
             !.log = Append(@, [by |-> t, fn |-> me.fn, name |-> me.name,
                                schema |-> me.schema, ret |-> ret,
                                registered |-> me.registered, pre |-> me.pre,
                                post |-> [trees |-> trees, opened |-> opened]])]

\* The call of the thread t goes on as me.
Continues(t, me, trees, opened) ==
    db' = [db EXCEPT !.trees = trees, !.opened = opened, !.th[t] = me]

\* A faulty create_index, which returns the index it found whatever its
\* schema (C26 fails with it).
create_index_on_some_SchemaNotCompared(index_schema, schema) ==
    DbRet("Ok", index_schema, "")

\* create_index when open_index returned Some(index) (lines 132-138).
create_index_on_some(index_schema, schema) ==
    IF index_schema # schema
    THEN DbRet("Err", "", "SchemaDiffer")
    ELSE DbRet("Ok", index_schema, "")

\* open_index returns ret: to its caller, or to create_index, which returns
\* an error at once (the ? of line 131), matches Some(index), or goes on to
\* make the index on None.
OpenIndexReturns(t, me, ret, opened) ==
    IF me.fn = "open_index" \/ ret.kind = "Err"
    THEN Returns(t, me, ret, db.trees, opened)
    ELSE IF ret.kind = "Some"
    THEN Returns(t, me, create_index_on_some(ret.schema, me.schema), db.trees, opened)
    ELSE Continues(t, [me EXCEPT !.pc = "open_tree", !.within = "create_index"],
                   db.trees, opened)

\* A thread calls open_index(name).
CallOpenIndex(t, name) ==
    /\ db.th[t].pc = "idle"
    /\ db.calls > 0
    /\ db' = [db EXCEPT
                !.calls = @ - 1,
                !.th[t] = DbThread("lease", "open_index", "open_index", name, "",
                                   RawIndex("", ""), Opened(<<>>, 0), FALSE,
                                   [trees |-> db.trees, opened |-> db.opened])]
    /\ UNCHANGED NotDbVars

\* A thread calls create_index(name, schema), which calls open_index(&name).
CallCreateIndex(t, name, schema) ==
    /\ db.th[t].pc = "idle"
    /\ db.calls > 0
    /\ db' = [db EXCEPT
                !.calls = @ - 1,
                !.th[t] = DbThread("lease", "create_index", "open_index", name, schema,
                                   RawIndex("", ""), Opened(<<>>, 0), FALSE,
                                   [trees |-> db.trees, opened |-> db.opened])]
    /\ UNCHANGED NotDbVars

\* Lines 109-111: self.opened.lease().get(name).
Lease(t) ==
    /\ db.th[t].pc = "lease"
    /\ LET me == db.th[t]
       IN  IF me.name \in DOMAIN db.opened.map
           THEN OpenIndexReturns(t, me, DbRet("Some", db.opened.map[me.name].schema, ""),
                                 db.opened)
           ELSE Continues(t, [me EXCEPT !.pc = "tree_names"], db.trees, db.opened)
    /\ UNCHANGED NotDbVars

\* Lines 113-115 and 127: the tree is looked for among tree_names and opened
\* when it is there; Ok(None) when it is not.
TreeNames(t) ==
    /\ db.th[t].pc = "tree_names"
    /\ LET me == db.th[t]
           raw_name == index_name(me.name)
       IN  IF db.trees[raw_name].exists
           THEN Continues(t, [me EXCEPT !.pc = "get_schema",
                                        !.raw_index = RawIndex("", raw_name)],
                          db.trees, db.opened)
           ELSE OpenIndexReturns(t, me, DbRet("None", "", ""), db.opened)
    /\ UNCHANGED NotDbVars

\* RawIndex::from_raw, lines 166-170: inner.get("schema").
GetSchema(t) ==
    /\ db.th[t].pc = "get_schema"
    /\ LET me == db.th[t]
           tree == db.trees[me.raw_index.inner]
       IN  IF tree.schema = ""
           THEN OpenIndexReturns(t, me, DbRet("Err", "", "SchemaMissing"), db.opened)
           ELSE Continues(t, [me EXCEPT !.pc = "get_word_index",
                                        !.raw_index.schema = tree.schema],
                          db.trees, db.opened)
    /\ UNCHANGED NotDbVars

\* RawIndex::from_raw, lines 172-173: inner.get("word-index"); the index is
\* built when it is there.
GetWordIndex(t) ==
    /\ db.th[t].pc = "get_word_index"
    /\ LET me == db.th[t]
           tree == db.trees[me.raw_index.inner]
       IN  IF tree.word_index = ""
           THEN OpenIndexReturns(t, me, DbRet("Err", "", "WordIndexMissing"), db.opened)
           ELSE Continues(t, [me EXCEPT !.pc = "rcu_load"], db.trees, db.opened)
    /\ UNCHANGED NotDbVars

\* ArcSwap::rcu: the map the ArcSwap points to is loaded ...
RcuLoad(t) ==
    /\ db.th[t].pc = "rcu_load"
    /\ Continues(t, [db.th[t] EXCEPT !.pc = "rcu_swap", !.loaded = db.opened],
                 db.trees, db.opened)
    /\ UNCHANGED NotDbVars

\* ... and the clone of it with (name, raw_index) inserted is stored if the
\* ArcSwap still points to the map that was loaded.
rcu(opened, loaded, name, raw_index) ==
    IF opened.version = loaded.version
    THEN [swapped |-> TRUE,
          opened  |-> Opened(MapInsert(loaded.map, name, raw_index), opened.version + 1)]
    ELSE [swapped |-> FALSE, opened |-> opened]

\* Lines 118-124 and 144-150: the store of rcu, after which open_index
\* returns Some(index) and create_index Ok(index); rcu starts again when
\* the map was swapped meanwhile.
RcuSwap(t) ==
    /\ db.th[t].pc = "rcu_swap"
    /\ LET me == db.th[t]
           r == rcu(db.opened, me.loaded, me.name, me.raw_index)
           done == [me EXCEPT !.registered = TRUE]
       IN  IF ~r.swapped
           THEN Continues(t, [me EXCEPT !.pc = "rcu_load"], db.trees, db.opened)
           ELSE IF me.within = "open_index"
           THEN OpenIndexReturns(t, done, DbRet("Some", me.raw_index.schema, ""), r.opened)
           ELSE Returns(t, done, DbRet("Ok", me.raw_index.schema, ""), db.trees, r.opened)
    /\ UNCHANGED NotDbVars

\* Lines 140-141: self.inner.open_tree(raw_name), which makes the tree when
\* the sled::Db has none of that name.
OpenTree(t) ==
    /\ db.th[t].pc = "open_tree"
    /\ LET me == db.th[t]
           raw_name == index_name(me.name)
       IN  Continues(t, [me EXCEPT !.pc = "set_schema",
                                   !.raw_index = RawIndex("", raw_name)],
                     [db.trees EXCEPT ![raw_name].exists = TRUE], db.opened)
    /\ UNCHANGED NotDbVars

\* RawIndex::new_from_raw, lines 198-200: inner.set("schema", schema_bytes).
SetSchema(t) ==
    /\ db.th[t].pc = "set_schema"
    /\ LET me == db.th[t]
       IN  Continues(t, [me EXCEPT !.pc = "set_word_index"],
                     [db.trees EXCEPT ![me.raw_index.inner].schema = me.schema,
                                      ![me.raw_index.inner].sets = @ + 1],
                     db.opened)
    /\ UNCHANGED NotDbVars

\* RawIndex::new_from_raw, lines 202-208: inner.set("word-index", ..) with
\* the bytes of WordIndex::default(); the RawIndex holds the schema given.
SetWordIndex(t) ==
    /\ db.th[t].pc = "set_word_index"
    /\ LET me == db.th[t]
       IN  Continues(t, [me EXCEPT !.pc = "rcu_load", !.raw_index.schema = me.schema],
                     [db.trees EXCEPT ![me.raw_index.inner].word_index = "empty",
                                      ![me.raw_index.inner].sets = @ + 1],
                     db.opened)
    /\ UNCHANGED NotDbVars

NextDb ==
    \/ \E t \in DOMAIN db.th, name \in IndexNames : CallOpenIndex(t, name)
    \/ \E t \in DOMAIN db.th, name \in IndexNames, schema \in Schemas :
          CallCreateIndex(t, name, schema)
    \/ \E t \in DOMAIN db.th : Lease(t)
    \/ \E t \in DOMAIN db.th : TreeNames(t)
    \/ \E t \in DOMAIN db.th : GetSchema(t)
    \/ \E t \in DOMAIN db.th : GetWordIndex(t)
    \/ \E t \in DOMAIN db.th : RcuLoad(t)
    \/ \E t \in DOMAIN db.th : RcuSwap(t)
    \/ \E t \in DOMAIN db.th : OpenTree(t)
    \/ \E t \in DOMAIN db.th : SetSchema(t)
    \/ \E t \in DOMAIN db.th : SetWordIndex(t)

SpecDbSequential == InitDbSequential /\ [][NextDb]_vars

SpecDbConcurrent == InitDbConcurrent /\ [][NextDb]_vars

(***************************************************************************)
(* MergedVectorDocument::iter_vectors and ::vectors_for_key, with the      *)
(* iter_vectors and vectors_for_key of the two documents it is made of.    *)
(* The index is consistent: embedder_category_id holds a name exactly when *)
(* an embedding config has it. The keys of a RawMap are distinct.          *)
(***************************************************************************)
\* entry_from_raw_value, lines 133-142, on the raw value of name in the
\* document from: the entry, or the serde_json error wrapped by wrap.
entry_from_raw_value(from, name, parses, wrap) ==
    IF parses
    THEN VecOk(name, VectorEntry(FALSE, << "FromJson", from, name >>))
    ELSE VecErr(<< wrap, from, name >>)

\* VectorDocumentFromDb::entry_from_db, lines 77-97.
entry_from_db(name, readable) ==
    IF readable
    THEN VecOk(name, VectorEntry(TRUE, << "FromDb", "db", name >>))
    ELSE VecErr(<< "heed", "db", name >>)

\* VectorDocumentFromVersions::iter_vectors, lines 162-167.
FromVersions_iter_vectors(self) ==
    [i \in 1..Len(self.vectors) |->
        entry_from_raw_value("new_doc", self.vectors[i][1], self.vectors[i][2],
                             "UserError::SerdeJson")]

\* RawMap::get(key): the index of the entry of key, 0 for None.
RawMap_get(map, key) ==
    IF \E i \in 1..Len(map) : map[i][1] = key
    THEN CHOOSE i \in 1..Len(map) : map[i][1] = key
    ELSE 0

\* The result of vectors_for_key an item stands for.
RetOf(item) ==
    IF item.ok THEN VecRet("Some", item.entry, <<>>)
    ELSE VecRet("Err", NoVectorEntry, item.err)

\* VectorDocumentFromVersions::vectors_for_key, lines 169-173.
FromVersions_vectors_for_key(self, key) ==
    LET i == RawMap_get(self.vectors, key)
    IN  IF i = 0 THEN VecRet("None", NoVectorEntry, <<>>)
        ELSE RetOf(entry_from_raw_value("new_doc", key, self.vectors[i][2],
                                        "UserError::SerdeJson"))

\* VectorDocumentFromDb::iter_vectors, lines 101-114: the embedding configs,
\* then the _vectors field of the stored document.
FromDb_iter_vectors(self) ==
    [i \in 1..Len(self.embedding_config) |->
        entry_from_db(self.embedding_config[i][1], self.embedding_config[i][2])]
    \o (IF self.vectors_field.some
        THEN [i \in 1..Len(self.vectors_field.vectors) |->
                entry_from_raw_value("db", self.vectors_field.vectors[i][1],
                                     self.vectors_field.vectors[i][2],
                                     "InternalError::SerdeJson")]
        ELSE <<>>)

\* VectorDocumentFromDb::vectors_for_key, lines 116-130.
FromDb_vectors_for_key(self, key) ==
    LET c == RawMap_get(self.embedding_config, key)
        i == IF self.vectors_field.some THEN RawMap_get(self.vectors_field.vectors, key)
             ELSE 0
    IN  IF c # 0 THEN RetOf(entry_from_db(key, self.embedding_config[c][2]))
        ELSE IF i # 0
        THEN RetOf(entry_from_raw_value("db", key, self.vectors_field.vectors[i][2],
                                        "InternalError::SerdeJson"))
        ELSE VecRet("None", NoVectorEntry, <<>>)

\* Lines 205-206: what new_doc_it and db_it go through.
new_doc_items(self) ==
    IF self.new_doc.some THEN FromVersions_iter_vectors(self.new_doc) ELSE <<>>

db_items(self) ==
    IF self.db.some THEN FromDb_iter_vectors(self.db) ELSE <<>>

\* A faulty loop over db_it, which returns the next item whatever
\* seen_fields holds (C28 fails with it).
db_next_SeenIgnored(items, pos, seen_fields) == pos

RECURSIVE db_next(_, _, _)
\* The loop of lines 216-226: where in db_it the item it returns is, past
\* the Ok items whose name is in seen_fields; past the end when db_it.next()
\* is None.
db_next(items, pos, seen_fields) ==
    IF pos > Len(items) THEN pos
    ELSE IF items[pos].ok /\ items[pos].name \in seen_fields
    THEN db_next(items, pos + 1, seen_fields)
    ELSE pos

\* MergedVectorDocument::vectors_for_key, lines 230-239.
Merged_vectors_for_key(self, key) ==
    LET new == IF self.new_doc.some THEN FromVersions_vectors_for_key(self.new_doc, key)
               ELSE VecRet("None", NoVectorEntry, <<>>)
    IN  IF new.kind # "None" THEN new
        ELSE IF ~self.db.some THEN VecRet("None", NoVectorEntry, <<>>)
        ELSE FromDb_vectors_for_key(self.db, key)

\* MergedVectorDocument::with_db and ::without_db, lines 182-200: a document
\* is made unless there is nothing on either side.
VectorDocuments ==
    LET maps == FlaggedNames(Embedders)
        new_docs == { NewDoc(FALSE, <<>>) } \cup { NewDoc(TRUE, v) : v \in maps }
        db_docs == { DbDoc(FALSE, <<>>, NewDoc(FALSE, <<>>)) }
                     \cup { DbDoc(TRUE, c, f) : c \in maps, f \in new_docs }
    IN  { MergedVectorDocument(n, d) : n \in new_docs, d \in db_docs }
            \ { NoVectorDocument }

InitVectorDocument ==
    /\ InitWorker
    /\ pending = 0
    /\ budget = 0
    /\ emissions = {}
    /\ docids = {}
    /\ faults = {}
    /\ fnArg = NoCall
    /\ fnRet = FnResult(FALSE, <<>>, <<>>)
    /\ pool = NoPool
    /\ db = NoDatabase
    /\ vdoc \in VectorDocuments

NotVdocVars == << pc, change, walkNo, rec, res, result, cache, sent, trace, pending,
                  budget, emissions, docids, faults, fnArg, fnRet, pool, db >>

\* The closure of from_fn is called (lines 209-227): the next item of
\* new_doc_it, its name going to seen_fields when it is Ok; when new_doc_it
\* has none, the next item of db_it the loop returns; None when db_it has none.
IterVectorsNext ==
    /\ ~vdoc.it.done
    /\ LET new == new_doc_items(vdoc)
           old == db_items(vdoc)
           it == vdoc.it
           at == db_next(old, it.db_pos, it.seen_fields)
       IN  IF it.new_pos <= Len(new)
           THEN vdoc' = [vdoc EXCEPT
                           !.it.new_pos = @ + 1,
                           !.it.seen_fields =
                               IF new[it.new_pos].ok THEN @ \cup { new[it.new_pos].name }
                               ELSE @,
                           !.yielded = Append(@, new[it.new_pos])]
           ELSE IF at <= Len(old)
           THEN vdoc' = [vdoc EXCEPT !.it.db_pos = at + 1, !.yielded = Append(@, old[at])]
           ELSE vdoc' = [vdoc EXCEPT !.it.db_pos = at, !.it.done = TRUE]
    /\ UNCHANGED NotVdocVars

\* vectors_for_key(key) is called on the document.
VectorsForKey(key) ==
    /\ vdoc.lookup.key # key
    /\ vdoc' = [vdoc EXCEPT !.lookup = [key |-> key, ret |-> Merged_vectors_for_key(vdoc, key)]]
    /\ UNCHANGED NotVdocVars

NextVectorDocument ==
    \/ IterVectorsNext
    \/ \E key \in Embedders : VectorsForKey(key)

SpecVectorDocument == InitVectorDocument /\ [][NextVectorDocument]_vars

(***************************************************************************)
(* Reading the trace.                                                      *)
(***************************************************************************)
\* The events of the change entered last, its begin first.
Cur ==
    LET begins == { i \in 1..Len(trace) : trace[i].ev = "begin" }
    IN  IF begins = {} THEN <<>>
        ELSE SubSeq(trace, CHOOSE i \in begins : \A j \in begins : j <= i, Len(trace))

At(tr, ev) == { i \in 1..Len(tr) : tr[i].ev = ev }

\* extract_document_change has returned for the change entered last.
Returned == Cur # <<>> /\ Cur[Len(Cur)].ev = "ret"

\* The side of the event at i of the change tr: "del" while the document
\* walked is the old one, "add" while it is the new one.
SideAt(tr, i) ==
    IF tr[1].op = "Deletion" THEN "del"
    ELSE IF tr[1].op = "Insertion" THEN "add"
    ELSE IF \E j \in At(tr, "walk_ret") : j < i THEN "add" ELSE "del"

\* The (fid, value) pairs the walker emitted on a side of the change tr.
Emitted(tr, side) ==
    { <<tr[i].fid, tr[i].value>> : i \in { j \in At(tr, "emit") : SideAt(tr, j) = side } }

\* The events the callback made for the emission at i: those up to the next
\* event that is not the callback's.
Block(tr, i) ==
    { j \in i+1..Len(tr) : \A k \in i+1..j : tr[k].ev \in {"cache", "rec"} }

\* A value the reconciler takes an entry for: a string, or a number that has
\* an ordered f64.
Reconciled(value) ==
    \/ value.kind = "String"
    \/ value.kind = "Number" /\ value.f64 # <<>> /\ is_finite(value.f64)

\* The 16 bytes of a finite f64, spelled out: the first byte with its top bit
\* set (a non-negative number) or all bytes complemented (a negative one),
\* then the raw bits.
Ordered16(f) ==
    (IF f[1] < 128
     THEN << f[1] + 128, f[2], f[3], f[4], f[5], f[6], f[7], f[8] >>
     ELSE << 255 - f[1], 255 - f[2], 255 - f[3], 255 - f[4],
             255 - f[5], 255 - f[6], 255 - f[7], 255 - f[8] >>) \o f

\* The entry the reconciler holds for the pair (fid, value): "Deletion",
\* "Addition", or "None".
EntryOf(self, fid, value) ==
    LET map == IF value.kind = "String" THEN self.strings ELSE self.f64s
        key == IF value.kind = "String" THEN <<fid, as_bytes(value.str)>>
               ELSE <<fid, Ordered16(value.f64)>>
    IN  IF key \in DOMAIN map THEN map[key] ELSE "None"

Count(S) == Cardinality(S)

(***************************************************************************)
(* C1. After both walks of an Update have returned Ok and before send_data *)
(* is called, the reconciler holds an entry for (fid, value) exactly when  *)
(* the value was emitted for fid in one of the old and the new document    *)
(* and not in the other: Deletion when only in the old one, Addition when  *)
(* only in the new one, none when in both, however many times each walk    *)
(* emits the value.                                                        *)
(***************************************************************************)
C1_ReconcilerHoldsSymmetricDifference ==
    (pc = "send_data" /\ change.kind = "Update" /\ res = "Ok") =>
        \A e \in Emitted(Cur, "del") \cup Emitted(Cur, "add") :
            Reconciled(e[2]) =>
                EntryOf(rec, e[1], e[2]) =
                    IF e \in Emitted(Cur, "del") /\ e \notin Emitted(Cur, "add")
                    THEN "Deletion"
                    ELSE IF e \in Emitted(Cur, "add") /\ e \notin Emitted(Cur, "del")
                    THEN "Addition"
                    ELSE "None"

(***************************************************************************)
(* C2. After an Update whose old and new documents emit the same set of    *)
(* (fid, value) pairs has been processed, the sender has received no call, *)
(* and every cache key was written as many times with insert_del_u32 as    *)
(* with insert_add_u32, whatever the multiplicity of each value. Stated    *)
(* here for the Updates of the claim whose two documents emit every pair   *)
(* equally often (old == new), where the two walks make the same writes.   *)
(***************************************************************************)
C2_NoOpUpdateIsSilent ==
    (Returned /\ Cur[1].op = "Update" /\ Cur[Len(Cur)].res = "Ok"
        /\ Emitted(Cur, "del") = Emitted(Cur, "add")
        /\ \A i \in At(Cur, "emit") :
              Count({ j \in At(Cur, "emit") :
                        /\ Cur[j].fid = Cur[i].fid /\ Cur[j].value = Cur[i].value
                        /\ SideAt(Cur, j) = "del" })
              = Count({ j \in At(Cur, "emit") :
                        /\ Cur[j].fid = Cur[i].fid /\ Cur[j].value = Cur[i].value
                        /\ SideAt(Cur, j) = "add" })) =>
        /\ At(Cur, "send") = {}
        /\ \A i \in At(Cur, "cache") :
              Count({ j \in At(Cur, "cache") :
                        /\ Cur[j].kind = Cur[i].kind /\ Cur[j].bytes = Cur[i].bytes
                        /\ Cur[j].op = "insert_del_u32" })
              = Count({ j \in At(Cur, "cache") :
                        /\ Cur[j].kind = Cur[i].kind /\ Cur[j].bytes = Cur[i].bytes
                        /\ Cur[j].op = "insert_add_u32" })

(***************************************************************************)
(* C3. When the insert_add and insert_del calls made on the reconciler of  *)
(* a change are equal in number for every (fid, value, kind), the flush    *)
(* (send_data) of that change makes no sender call.                        *)
(***************************************************************************)
C3_BalancedInsertsFlushNothing ==
    (Returned /\ At(Cur, "send_data") # {}
        /\ \A i \in At(Cur, "rec") :
              Count({ j \in At(Cur, "rec") :
                        /\ Cur[j].kind = Cur[i].kind /\ Cur[j].fid = Cur[i].fid
                        /\ Cur[j].bytes = Cur[i].bytes /\ Cur[j].op = "insert_del" })
              = Count({ j \in At(Cur, "rec") :
                        /\ Cur[j].kind = Cur[i].kind /\ Cur[j].fid = Cur[i].fid
                        /\ Cur[j].bytes = Cur[i].bytes /\ Cur[j].op = "insert_add" })) =>
        At(Cur, "send") = {}

(***************************************************************************)
(* C4. In every state the reconciler reaches during a walk and for every   *)
(* key, calling the facet_fn of that walk (insert_add, or insert_del)      *)
(* twice in a row leaves the reconciler as calling it once does.           *)
(***************************************************************************)
C4_InsertTwiceIsInsertOnce ==
    pc = "walk" =>
        \A e \in { x \in emissions : Reconciled(x[2]) } :
            LET fn == facet_fn_of(change.kind, walkNo)
                kind == e[2].kind
                value == IF kind = "String" THEN as_bytes(e[2].str) ELSE Ordered16(e[2].f64)
                once == facet_fn_call(fn, rec, e[1], value, kind)
            IN  facet_fn_call(fn, once, e[1], value, kind) = once

(***************************************************************************)
(* The reconciler and the sender calls a trace accounts for.               *)
(***************************************************************************)
RECURSIVE RecAfter(_, _)
\* The reconciler after the facet_fn calls among the first n events of tr.
RecAfter(tr, n) ==
    IF n = 0 THEN DelAddFacetValue_new
    ELSE IF tr[n].ev = "rec"
         THEN facet_fn_call(tr[n].op, RecAfter(tr, n - 1), tr[n].fid, tr[n].bytes, tr[n].kind)
         ELSE RecAfter(tr, n - 1)

\* The sender call the flush owes for an entry of the reconciler.
CallFor(docid, field, key, deladd) ==
    LET prefix == << (key[1] \div 256) % 256, key[1] % 256,
                     (docid \div 16777216) % 256, (docid \div 65536) % 256,
                     (docid \div 256) % 256, docid % 256 >>
        suffix == IF field = "strings"
                  THEN as_bytes(truncate_str(normalize_facet(from_utf8(key[2]).s)))
                  ELSE key[2]
        method == (IF deladd = "Addition" THEN "write_facet_" ELSE "delete_facet_")
                    \o (IF field = "strings" THEN "string" ELSE "f64")
    IN  [op |-> method, bytes |-> prefix \o suffix,
         raw |-> IF method = "write_facet_string" THEN key[2] ELSE <<>>]

\* The sender calls among calls are, counted with their multiplicity, the
\* calls the flush owes for the entries of self: one for each entry.
OneCallPerEntry(calls, self, docid) ==
    LET owed(c) == Count({ k \in DOMAIN self.strings :
                              CallFor(docid, "strings", k, self.strings[k]) = c })
                   + Count({ k \in DOMAIN self.f64s :
                              CallFor(docid, "f64s", k, self.f64s[k]) = c })
        made(c) == Count({ i \in 1..Len(calls) :
                              [op |-> calls[i].op, bytes |-> calls[i].bytes,
                               raw |-> calls[i].raw] = c })
        owedCalls == { CallFor(docid, "strings", k, self.strings[k]) : k \in DOMAIN self.strings }
                       \cup { CallFor(docid, "f64s", k, self.f64s[k]) : k \in DOMAIN self.f64s }
    IN  /\ Len(calls) = Cardinality(DOMAIN self.strings) + Cardinality(DOMAIN self.f64s)
        /\ \A c \in owedCalls : made(c) = owed(c)

\* The sender calls of the change tr, in order.
Sends(tr) == SelectSeq(tr, LAMBDA e : e.ev = "send")

\* The walk_ret at i is that of the last walk of the change tr.
LastWalk(tr, i) == tr[1].op # "Update" \/ \E j \in At(tr, "walk_ret") : j < i

(***************************************************************************)
(* C5. For every kind of change, when the last walk of the change (the     *)
(* only walk of an Insertion or a Deletion, the walk of the new document   *)
(* of an Update) returns an error, send_data is still called, once, with   *)
(* the entries the reconciler has taken so far, and the error of the walk  *)
(* is then what extract_document_change returns.                           *)
(***************************************************************************)
C5_LastWalkErrorStillFlushes ==
    \A i \in At(Cur, "walk_ret") :
        (Cur[i].res = "Err" /\ LastWalk(Cur, i)) =>
            /\ pc \in {"send_data", "returned"}
            /\ pc = "send_data" => (res = "Err" /\ rec = RecAfter(Cur, i))
            /\ pc = "returned" =>
                  /\ At(Cur, "send_data") = {i + 1}
                  /\ OneCallPerEntry(Sends(Cur), RecAfter(Cur, i), Cur[1].docid)
                  /\ \A j \in At(Cur, "send") : j > i + 1
                  /\ Cur[Len(Cur)].ev = "ret" /\ Cur[Len(Cur)].res = "Err"
                  /\ result = "Err"

\* An Update whose second walk failed after the reconciler had taken an
\* entry has been flushed and has returned the error.
C5_Witness ==
    /\ pc = "returned" /\ result = "Err"
    /\ Cur # <<>> /\ Cur[1].op = "Update"
    /\ \E i \in At(Cur, "walk_ret") : Cur[i].res = "Err" /\ LastWalk(Cur, i)
    /\ At(Cur, "send") # {}

(***************************************************************************)
(* C6. Whenever an error of the walker ends the processing of a change,    *)
(* wherever it occurs (the walk of the old document of an Update           *)
(* included), the entries the reconciler had taken before the error have   *)
(* been flushed to the sender when the processing of the change ends.      *)
(***************************************************************************)
C6_AnyWalkErrorStillFlushes ==
    \A i \in At(Cur, "walk_ret") :
        (Cur[i].res = "Err" /\ Returned) =>
            OneCallPerEntry(Sends(Cur), RecAfter(Cur, i), Cur[1].docid)

(***************************************************************************)
(* C7. Every emission (fid, value) of the walker causes exactly one cache  *)
(* write of the Exists key of fid, made with the cache_fn of the side      *)
(* walked (del for the old document, add for the new one), whatever the    *)
(* kind of the value, and that write comes before any typed key write and  *)
(* any reconciler insert of the emission.                                  *)
(***************************************************************************)
C7_ExistsWrittenFirstForEveryKind ==
    \A i \in At(Cur, "emit") :
        /\ { j \in Block(Cur, i) : Cur[j].ev = "cache" /\ Cur[j].kind = "Exists" } = {i + 1}
        /\ Cur[i + 1].op = IF SideAt(Cur, i) = "del" THEN "insert_del_u32" ELSE "insert_add_u32"
        /\ Cur[i + 1].bytes = << (Cur[i].fid \div 256) % 256, Cur[i].fid % 256 >>
        /\ Cur[i + 1].docid = Cur[1].docid

\* A boolean and a string were emitted during the new document's walk of an
\* Update; the string's emission made its three calls.
C7_Witness ==
    /\ Cur # <<>> /\ Cur[1].op = "Update"
    /\ \E i, j \in At(Cur, "emit") :
          /\ SideAt(Cur, i) = "add" /\ Cur[i].value = VBool
          /\ Cur[j].value.kind = "String" /\ Cardinality(Block(Cur, j)) = 3

(***************************************************************************)
(* C8. Besides the Exists key, an emission writes exactly one typed cache  *)
(* key, chosen by its value: the Number key (fid, level 0, the 16 ordered  *)
(* bytes) for a number that has them, the String key (fid, level 0,        *)
(* truncate(normalize(s))) for a string, the Null key for null, the Empty  *)
(* key for an empty array or object. Null and empty values add nothing to  *)
(* the reconciler, and a change made of them only makes no sender call.    *)
(***************************************************************************)
TypedKeyOf(fid, value) ==
    LET f == << (fid \div 256) % 256, fid % 256 >>
    IN  IF value.kind = "Number"
        THEN [kind |-> "Number", bytes |-> f \o <<0>> \o Ordered16(value.f64)]
        ELSE IF value.kind = "String"
        THEN [kind |-> "String",
              bytes |-> f \o <<0>> \o as_bytes(truncate_str(normalize_facet(value.str)))]
        ELSE IF value.kind = "Null" THEN [kind |-> "Null", bytes |-> f]
        ELSE [kind |-> "Empty", bytes |-> f]

NullOrEmpty(value) ==
    value.kind = "Null" \/ (value.kind \in {"Array", "Object"} /\ value.len = 0)

C8_OneTypedKeyPerValue ==
    /\ \A i \in At(Cur, "emit") :
          (Reconciled(Cur[i].value) \/ NullOrEmpty(Cur[i].value)) =>
              LET typed == { j \in Block(Cur, i) : Cur[j].ev = "cache" /\ Cur[j].kind # "Exists" }
              IN  /\ Cardinality(typed) = 1
                  /\ \A j \in typed :
                        /\ [kind |-> Cur[j].kind, bytes |-> Cur[j].bytes]
                             = TypedKeyOf(Cur[i].fid, Cur[i].value)
                        /\ Cur[j].op = Cur[i + 1].op
                        /\ Cur[j].docid = Cur[1].docid
                  /\ NullOrEmpty(Cur[i].value) =>
                        { j \in Block(Cur, i) : Cur[j].ev = "rec" } = {}
    /\ (Returned /\ \A i \in At(Cur, "emit") : NullOrEmpty(Cur[i].value)) =>
          At(Cur, "send") = {}

\* A change that emitted a string longer than MAX_FACET_VALUE_LENGTH and an
\* empty array has returned.
C8_Witness ==
    /\ Returned
    /\ \E i, j \in At(Cur, "emit") :
          /\ Cur[i].value = VString(Strrede)
          /\ Cur[j].value = VArray(0)

(***************************************************************************)
(* C9. An emission whose value is a number without an f64, or with an f64  *)
(* that has no ordered encoding (NaN, +inf, -inf), writes the Exists key   *)
(* and nothing else: no Number key, no reconciler entry, no sender call    *)
(* comes of it, and the callback returns Ok, so that the walk goes on.     *)
(***************************************************************************)
Unrepresentable ==
    { VNumberNoF64, VNumber(FNaN), VNumber(FInf), VNumber(FNegInf) }

C9_UnrepresentableNumberWritesExistsOnly ==
    /\ \A i \in At(Cur, "emit") :
          Cur[i].value \in Unrepresentable =>
              /\ Block(Cur, i) = {i + 1}
              /\ Cur[i + 1].ev = "cache" /\ Cur[i + 1].kind = "Exists"
              /\ Cur[i].res = "Ok"
              /\ i + 1 = Len(Cur) => pc = "walk"
    /\ (Returned /\ \A i \in At(Cur, "emit") : Cur[i].value \in Unrepresentable) =>
          At(Cur, "send") = {}

\* The walker emitted NaN and then went on to emit a number that made it to
\* the reconciler.
C9_Witness ==
    \E i, j \in At(Cur, "emit") :
        /\ i < j
        /\ Cur[i].value = VNumber(FNaN)
        /\ Cur[j].value = VNumber(FNeg1)
        /\ rec.f64s # EmptyMap

(***************************************************************************)
(* C10. send_data makes exactly one sender call for each entry left in the *)
(* reconciler, and no other: for an entry of strings,                      *)
(* write_facet_string(key, the raw value bytes) when it is an Addition and *)
(* delete_facet_string(key) when it is a Deletion, the key being           *)
(* fid_be(2) || docid_be(4) || truncate(normalize(value)); for an entry of *)
(* f64s, write_facet_f64(key) or delete_facet_f64(key), the key being      *)
(* fid_be(2) || docid_be(4) || the 16 ordered bytes.                       *)
(***************************************************************************)
C10_FlushSendsOneCallPerEntry ==
    [][pc = "send_data" =>
          /\ Len(sent') >= Len(sent)
          /\ SubSeq(sent', 1, Len(sent)) = sent
          /\ OneCallPerEntry(SubSeq(sent', Len(sent) + 1, Len(sent')), rec, change.docid)]_vars

\* The sender has received the deletion of a number, and the write of "Red"
\* under the key of "red" for the document 258.
C10_Witness ==
    /\ Returned
    /\ \E i, j \in 1..Len(sent) :
          /\ sent[i].op = "delete_facet_f64"
          /\ sent[j].op = "write_facet_string"
          /\ sent[j].bytes = << 0, 3, 0, 0, 1, 2, 114, 101, 100 >>
          /\ sent[j].raw = << 82, 101, 100 >>

(***************************************************************************)
(* C11. A Deletion makes its cache writes with insert_del_u32 only and its *)
(* reconciler calls with insert_del only, and the sender receives delete   *)
(* calls only for it; an Insertion makes its cache writes with             *)
(* insert_add_u32 only and its reconciler calls with insert_add only, and  *)
(* the sender receives write calls only for it.                            *)
(***************************************************************************)
C11_DeletionAndInsertionAreOneSided ==
    Cur # <<>> =>
        /\ Cur[1].op = "Deletion" =>
              /\ \A i \in At(Cur, "cache") : Cur[i].op = "insert_del_u32"
              /\ \A i \in At(Cur, "rec") : Cur[i].op = "insert_del"
              /\ \A i \in At(Cur, "send") :
                    Cur[i].op \in {"delete_facet_string", "delete_facet_f64"}
        /\ Cur[1].op = "Insertion" =>
              /\ \A i \in At(Cur, "cache") : Cur[i].op = "insert_add_u32"
              /\ \A i \in At(Cur, "rec") : Cur[i].op = "insert_add"
              /\ \A i \in At(Cur, "send") :
                    Cur[i].op \in {"write_facet_string", "write_facet_f64"}

\* A Deletion that emitted a string and a number has returned, and the
\* sender received the deletion of both.
C11_Witness ==
    /\ Returned /\ Cur[1].op = "Deletion"
    /\ \E i, j \in At(Cur, "send") :
          Cur[i].op = "delete_facet_string" /\ Cur[j].op = "delete_facet_f64"
    /\ Cardinality(At(Cur, "cache")) >= 4

(***************************************************************************)
(* C12. While an Update is processed, every insert_del_u32 cache write and *)
(* every insert_del reconciler call comes before any insert_add_u32 cache  *)
(* write and any insert_add reconciler call, and every sender call of the  *)
(* change comes after all of them.                                         *)
(***************************************************************************)
DelCalls(tr) ==
    { i \in At(tr, "cache") : tr[i].op = "insert_del_u32" }
        \cup { i \in At(tr, "rec") : tr[i].op = "insert_del" }

AddCalls(tr) ==
    { i \in At(tr, "cache") : tr[i].op = "insert_add_u32" }
        \cup { i \in At(tr, "rec") : tr[i].op = "insert_add" }

C12_UpdateDelBeforeAddBeforeSend ==
    (Cur # <<>> /\ Cur[1].op = "Update") =>
        /\ \A i \in DelCalls(Cur), j \in AddCalls(Cur) : i < j
        /\ \A i \in DelCalls(Cur) \cup AddCalls(Cur), j \in At(Cur, "send") : i < j

\* An Update has returned whose two walks both reached the cache and the
\* reconciler, and whose flush reached the sender.
C12_Witness ==
    /\ Returned /\ Cur[1].op = "Update"
    /\ \E i \in At(Cur, "rec") : Cur[i].op = "insert_del"
    /\ \E i \in At(Cur, "rec") : Cur[i].op = "insert_add"
    /\ At(Cur, "send") # {}

(***************************************************************************)
(* C14. What the reconciler of a change holds when send_data is called,    *)
(* and the set of sender calls send_data makes, depend on how many times   *)
(* each (fid, value) was emitted in the walk of the old document and in    *)
(* the walk of the new one, and not on the order of the emissions within   *)
(* either walk: they are what the same emissions yield when each walk      *)
(* makes them in one fixed order.                                          *)
(***************************************************************************)
\* How many times the walker emitted the pair e on a side of the change tr.
EmitCount(tr, side, e) ==
    Cardinality({ j \in At(tr, "emit") :
                    SideAt(tr, j) = side /\ <<tr[j].fid, tr[j].value>> = e })

RECURSIVE Repeat(_, _, _, _)
\* The reconciler after n emissions of the pair e with the facet_fn fn.
Repeat(fn, self, e, n) ==
    IF n = 0 \/ ~Reconciled(e[2]) THEN self
    ELSE LET value == IF e[2].kind = "String" THEN as_bytes(e[2].str)
                      ELSE Ordered16(e[2].f64)
         IN  Repeat(fn, facet_fn_call(fn, self, e[1], value, e[2].kind), e, n - 1)

RECURSIVE ReplaySorted(_, _, _, _)
\* The reconciler after a walk that emits the pairs of S as often as the walk
\* of side did in tr, in the one order CHOOSE fixes for S.
ReplaySorted(S, tr, side, self) ==
    IF S = {} THEN self
    ELSE LET e == CHOOSE x \in S : TRUE
             fn == IF side = "del" THEN "insert_del" ELSE "insert_add"
         IN  ReplaySorted(S \ {e}, tr, side, Repeat(fn, self, e, EmitCount(tr, side, e)))

SortedRec(tr) ==
    ReplaySorted(emissions, tr, "add",
                 ReplaySorted(emissions, tr, "del", DelAddFacetValue_new))

CallsOwed(self, docid) ==
    { CallFor(docid, "strings", k, self.strings[k]) : k \in DOMAIN self.strings }
        \cup { CallFor(docid, "f64s", k, self.f64s[k]) : k \in DOMAIN self.f64s }

C14_FlushIndependentOfEmissionOrder ==
    /\ pc = "send_data" => rec = SortedRec(Cur)
    /\ (Returned /\ At(Cur, "send_data") # {}) =>
          { [op |-> Cur[i].op, bytes |-> Cur[i].bytes, raw |-> Cur[i].raw] :
                i \in At(Cur, "send") } = CallsOwed(SortedRec(Cur), Cur[1].docid)

\* An Update has been flushed whose old document emitted two different
\* strings and whose new document emitted a number after a string.
C14_Witness ==
    /\ Returned /\ Cur[1].op = "Update" /\ At(Cur, "send") # {}
    /\ \E i, j \in At(Cur, "emit") :
          /\ i < j /\ SideAt(Cur, i) = "del" /\ SideAt(Cur, j) = "del"
          /\ Cur[i].value = VString(Strrede) /\ Cur[j].value = VString(StrRed)
    /\ \E i, j \in At(Cur, "emit") :
          /\ i < j /\ SideAt(Cur, i) = "add" /\ SideAt(Cur, j) = "add"
          /\ Cur[i].value = VString(StrRed) /\ Cur[j].value = VNumber(F10)

(***************************************************************************)
(* C18. As the specification states it: an emission whose value is a JSON  *)
(* boolean causes no cache write at all, neither of a typed key nor of the *)
(* Exists key, and no reconciler call.                                     *)
(***************************************************************************)
C18_BooleanWritesNothing ==
    \A i \in At(Cur, "emit") : Cur[i].value.kind = "Bool" => Block(Cur, i) = {}

(***************************************************************************)
(* C18, as the code has it: an emission whose value is a JSON boolean      *)
(* causes exactly one cache write, that of the Exists key of its field     *)
(* with the cache_fn of the side walked, and nothing else: no typed key,   *)
(* no reconciler call, no sender call; the callback returns Ok.            *)
(***************************************************************************)
C18_BooleanWritesExistsOnly ==
    /\ \A i \in At(Cur, "emit") :
          Cur[i].value.kind = "Bool" =>
              /\ Block(Cur, i) = {i + 1}
              /\ Cur[i + 1].ev = "cache" /\ Cur[i + 1].kind = "Exists"
              /\ Cur[i + 1].bytes = << (Cur[i].fid \div 256) % 256, Cur[i].fid % 256 >>
              /\ Cur[i + 1].op =
                    IF SideAt(Cur, i) = "del" THEN "insert_del_u32" ELSE "insert_add_u32"
              /\ Cur[i].res = "Ok"
    /\ (Returned /\ \A i \in At(Cur, "emit") : Cur[i].value.kind = "Bool") =>
          At(Cur, "send") = {}

\* A Deletion that emitted a boolean twice, and nothing else, has returned.
C18_Witness ==
    /\ Returned /\ Cur[1].op = "Deletion"
    /\ Cardinality(At(Cur, "emit")) = 2
    /\ \A i \in At(Cur, "emit") : Cur[i].value = VBool
    /\ cache = { [cache_fn |-> "insert_del_u32", kind |-> "Exists",
                  bytes |-> <<1, 5>>, docid |-> 258] }

(***************************************************************************)
(* Reading the trace of a run of several changes.                          *)
(***************************************************************************)
\* The events of the change whose begin is at b.
ChangeFrom(b) ==
    LET later == { j \in At(trace, "begin") : j > b }
        last == IF later = {} THEN Len(trace)
                ELSE (CHOOSE j \in later : \A k \in later : j <= k) - 1
    IN  SubSeq(trace, b, last)

\* The change tr has returned Ok.
ReturnedOk(tr) == tr[Len(tr)].ev = "ret" /\ tr[Len(tr)].res = "Ok"

(***************************************************************************)
(* C15. A sender call that fails during the flush of a change is the last  *)
(* thing the worker does: the flush stops there, the failed call does not  *)
(* reach the sender, and the worker makes no sender call and no cache      *)
(* write after it, neither for that change nor for a later one (the unwrap *)
(* of the result of send_data panics).                                     *)
(***************************************************************************)
C15_SenderFailureIsFatal ==
    /\ \A i \in At(trace, "send") :
          trace[i].res = "Err" =>
              i = Len(trace) /\ pc = "panicked" /\ result = "panic"
    /\ Len(sent) = Cardinality({ i \in At(trace, "send") : trace[i].res = "Ok" })
    /\ pc = "panicked" => trace[Len(trace)].ev = "send" /\ trace[Len(trace)].res = "Err"

\* The second sender call of the flush of the first change failed while the
\* iterator had another change to yield and the documents more to emit.
C15_Witness ==
    /\ pc = "panicked" /\ pending > 0 /\ budget > 0
    /\ Len(sent) = 1
    /\ Cardinality(DOMAIN RecAfter(Cur, Len(Cur)).strings
                    \cup DOMAIN RecAfter(Cur, Len(Cur)).f64s) = 2

(***************************************************************************)
(* C16. When a document d is inserted and later, in a change of its own,   *)
(* deleted, the document emitting the same both times, the Deletion        *)
(* mirrors the Insertion: the cache keys written with insert_del_u32 for d *)
(* by the Deletion are those written with insert_add_u32 for d by the      *)
(* Insertion, and the keys the Deletion deletes at the sender are those    *)
(* the Insertion wrote there, strings for strings and f64s for f64s.       *)
(***************************************************************************)
EmissionsOf(tr) ==
    [i \in 1..Cardinality(At(tr, "emit")) |->
        LET j == CHOOSE k \in At(tr, "emit") :
                    Cardinality({ m \in At(tr, "emit") : m <= k }) = i
        IN  << tr[j].fid, tr[j].value >>]

CacheKeys(tr, cache_fn) ==
    { [kind |-> tr[i].kind, bytes |-> tr[i].bytes, docid |-> tr[i].docid] :
        i \in { j \in At(tr, "cache") : tr[j].op = cache_fn /\ tr[j].res = "Ok" } }

SenderKeys(tr, method) ==
    { tr[i].bytes : i \in { j \in At(tr, "send") : tr[j].op = method /\ tr[j].res = "Ok" } }

C16_DeletionMirrorsInsertion ==
    \A b1, b2 \in At(trace, "begin") :
        LET ins == ChangeFrom(b1)
            del == ChangeFrom(b2)
        IN  (/\ b1 < b2
             /\ ins[1].op = "Insertion" /\ del[1].op = "Deletion"
             /\ ins[1].docid = del[1].docid
             /\ ReturnedOk(ins) /\ ReturnedOk(del)
             /\ EmissionsOf(ins) = EmissionsOf(del)) =>
                /\ CacheKeys(ins, "insert_add_u32") = CacheKeys(del, "insert_del_u32")
                /\ CacheKeys(ins, "insert_del_u32") = {} /\ CacheKeys(del, "insert_add_u32") = {}
                /\ SenderKeys(ins, "write_facet_string") = SenderKeys(del, "delete_facet_string")
                /\ SenderKeys(ins, "write_facet_f64") = SenderKeys(del, "delete_facet_f64")
                /\ SenderKeys(ins, "delete_facet_string") = {}
                /\ SenderKeys(ins, "delete_facet_f64") = {}
                /\ SenderKeys(del, "write_facet_string") = {}
                /\ SenderKeys(del, "write_facet_f64") = {}

\* The document 7 was inserted with "Red" and the number 10 and then deleted:
\* the sender received two writes and then the two deletions.
C16_Witness ==
    /\ pc = "process" /\ pending = 0
    /\ Len(sent) = 4
    /\ { sent[1].op, sent[2].op } = {"write_facet_string", "write_facet_f64"}
    /\ { sent[3].op, sent[4].op } = {"delete_facet_string", "delete_facet_f64"}
    /\ \E b1, b2 \in At(trace, "begin") :
          /\ b1 < b2 /\ trace[b1].op = "Insertion" /\ trace[b2].op = "Deletion"
          /\ EmissionsOf(ChangeFrom(b1)) = EmissionsOf(ChangeFrom(b2))

(***************************************************************************)
(* C20. A worker takes its changes one after the other: a change is begun  *)
(* only after the change before it has returned Ok, with all its cache     *)
(* writes and sender calls made. At the first error (the iterator yields   *)
(* an Err, a walk fails, a cache insertion fails) process returns the      *)
(* error, and from then on no change is begun, no cache write and no       *)
(* sender call is made.                                                    *)
(***************************************************************************)
C20_OneChangeAtATimeUntilFirstError ==
    [][/\ \A j \in At(trace', "begin") :
             j > 1 => (trace'[j - 1].ev = "ret" /\ trace'[j - 1].res = "Ok")
       /\ \A i \in At(trace', "ret") :
             trace'[i].res = "Err" =>
                 i = Len(trace') /\ pc' = "returned" /\ result' = "Err"
       /\ \A i \in 1..Len(trace') :
             (trace'[i].ev \in {"emit", "cache", "walk_ret"} /\ trace'[i].res = "Err") =>
                 /\ \A j \in At(trace', "begin") : j < i
                 /\ pc' \in {"send_data", "returned", "panicked"}
                 /\ pc' = "send_data" => res' = "Err"
                 /\ pc' = "returned" => result' = "Err"
       /\ result = "Err" =>
             (pc = "returned" /\ UNCHANGED << pc, cache, sent, trace >>)]_vars

\* The first change failed on a cache insertion after it had written to the
\* cache, and process returned the error with a change left in the iterator.
C20_Witness ==
    /\ pc = "returned" /\ result = "Err"
    /\ pending > 0 /\ budget > 0
    /\ cache # {}
    /\ \E i \in At(trace, "cache") : trace[i].res = "Err"

(***************************************************************************)
(* C13. For every str s and every MAX_FACET_VALUE_LENGTH, truncate_str(s)  *)
(* is the prefix s[..k] of s, k being the greatest char boundary of s (0   *)
(* and len(s) included) that is <= MAX_FACET_VALUE_LENGTH: it is at most   *)
(* MAX_FACET_VALUE_LENGTH bytes long, it is made of whole chars of s, it   *)
(* is s when len(s) <= MAX_FACET_VALUE_LENGTH, and it is empty when s is   *)
(* empty or MAX_FACET_VALUE_LENGTH is 0.                                   *)
(***************************************************************************)
\* The char boundaries of s: the byte offsets at which a char starts, and len(s).
Boundaries(s) == { Len(as_bytes(SubSeq(s, 1, k))) : k \in 0..Len(s) }

C13_TruncateStrIsGreatestBoundaryPrefix ==
    (fnArg.fn = "truncate_str" /\ fnRet.done) =>
        LET s == fnArg.s
            max == fnArg.max
            out == fnRet.s
            within == { b \in Boundaries(s) : b <= max }
            k == CHOOSE b \in within : \A c \in within : c <= b
        IN  /\ as_bytes(out) = SubSeq(as_bytes(s), 1, k)
            /\ Len(as_bytes(out)) <= max
            /\ Len(out) <= Len(s) /\ out = SubSeq(s, 1, Len(out))
            /\ Len(as_bytes(s)) <= max => out = s
            /\ (s = <<>> \/ max = 0) => out = <<>>

\* truncate_str has cut "a\u20ac\u00e9" (6 bytes) to "a" for a limit of 3, which
\* falls inside the second char.
C13_Witness ==
    /\ fnArg.fn = "truncate_str" /\ fnRet.done
    /\ fnArg.s = << <<97>>, <<226, 130, 172>>, <<195, 169>> >>
    /\ fnArg.max = 3
    /\ fnRet.s = << <<97>> >>

(***************************************************************************)
(* C19. send_data makes no sender call for a strings entry whose value     *)
(* bytes are not UTF-8 and does not fail on it: it makes one call for each *)
(* other entry of strings and for each entry of f64s, those of C10, and    *)
(* returns Ok.                                                             *)
(***************************************************************************)
\* self without the strings entries whose value bytes are not UTF-8.
WithoutInvalid(self) ==
    [self EXCEPT !.strings =
        [k \in { x \in DOMAIN self.strings : x[2] \notin InvalidValues } |-> self.strings[k]]]

C19_InvalidUtf8EntryIsSkipped ==
    (fnArg.fn = "send_data" /\ fnRet.done) =>
        /\ OneCallPerEntry(fnRet.calls, WithoutInvalid(fnArg.self), fnArg.docid)
        /\ \A i \in 1..Len(fnRet.calls) :
              fnRet.calls[i].raw \notin InvalidValues /\ fnRet.calls[i].res = "Ok"

\* send_data was called with two entries that are not UTF-8, an Addition and
\* a Deletion, among three others, and made three calls.
C19_Witness ==
    /\ fnArg.fn = "send_data" /\ fnRet.done
    /\ <<3, <<255>>>> \in DOMAIN fnArg.self.strings
    /\ <<3, <<82, 195>>>> \in DOMAIN fnArg.self.strings
    /\ fnArg.self.strings[<<3, <<255>>>>] = "Addition"
    /\ fnArg.self.strings[<<3, <<82, 195>>>>] = "Deletion"
    /\ Cardinality(DOMAIN fnArg.self.strings) = 4
    /\ Cardinality(DOMAIN fnArg.self.f64s) = 1
    /\ Len(fnRet.calls) = 3

C21_ReconcilerBelongsToOneChange ==
    /\ pc \in {"walk", "send_data"} => rec = RecAfter(Cur, Len(Cur))
    /\ pc = "process" => rec = DelAddFacetValue_new
    /\ (Returned /\ At(Cur, "send_data") # {}) =>
          OneCallPerEntry(Sends(Cur), RecAfter(Cur, Len(Cur)), Cur[1].docid)

\* The document 7 was deleted with "Red" in one change and inserted with
\* "Red" in the next: the sender received the deletion of the key and then
\* its write.
C21_Witness ==
    /\ pc = "process" /\ pending = 0
    /\ Len(sent) = 2
    /\ sent[1].op = "delete_facet_string" /\ sent[2].op = "write_facet_string"
    /\ sent[1].bytes = sent[2].bytes
    /\ \E b1, b2 \in At(trace, "begin") :
          /\ b1 < b2 /\ trace[b1].op = "Deletion" /\ trace[b2].op = "Insertion"
          /\ EmissionsOf(ChangeFrom(b1)) = << <<3, VString(StrRed)>> >>
          /\ EmissionsOf(ChangeFrom(b2)) = << <<3, VString(StrRed)>> >>

(***************************************************************************)
(* C22. insert_add and insert_del called with a kind other than String or  *)
(* Number (Exists, Null, Empty) leave both maps of the reconciler as they  *)
(* were. Called with the kind String they change the map of the strings    *)
(* only, and there the entry of (fid, value) only; with the kind Number    *)
(* the map of the f64s only, and there the entry of (fid, value) only. So  *)
(* an entry of the strings and an entry of the f64s with the same fid and  *)
(* the same value bytes never cancel each other.                           *)
(***************************************************************************)
C22_InsertTouchesTheMapOfItsKindOnly ==
    (fnArg.fn \in {"insert_add", "insert_del"} /\ fnRet.done) =>
        LET before == fnArg.self
            after  == fnRet.self
            key    == << fnArg.fid, fnArg.value >>
            Same(m, n, except) ==
                /\ DOMAIN m \ except = DOMAIN n \ except
                /\ \A k \in DOMAIN m \ except : m[k] = n[k]
        IN  /\ fnArg.kind \notin {"String", "Number"} => after = before
            /\ fnArg.kind = "String" =>
                  after.f64s = before.f64s /\ Same(before.strings, after.strings, {key})
            /\ fnArg.kind = "Number" =>
                  after.strings = before.strings /\ Same(before.f64s, after.f64s, {key})

\* insert_add was called with the kind Number for the fid and the value
\* bytes of a Deletion the strings hold: the Deletion is still there, and the
\* f64s hold an Addition.
C22_Witness ==
    LET key == << fnArg.fid, fnArg.value >>
    IN  /\ fnArg.fn = "insert_add" /\ fnArg.kind = "Number" /\ fnRet.done
        /\ key \in DOMAIN fnArg.self.strings /\ fnArg.self.strings[key] = "Deletion"
        /\ key \notin DOMAIN fnArg.self.f64s
        /\ key \in DOMAIN fnRet.self.strings /\ fnRet.self.strings[key] = "Deletion"
        /\ key \in DOMAIN fnRet.self.f64s /\ fnRet.self.f64s[key] = "Addition"

(***************************************************************************)
(* C23. Within one Insertion or one Deletion, a (fid, value) pair the      *)
(* reconciler takes (a string, a number that has an ordered f64) and that  *)
(* the walker emitted k >= 1 times produces exactly one sender call for    *)
(* that pair, while the cache receives k writes of the typed key of the    *)
(* pair and k writes of the Exists key of its field, all with the cache_fn *)
(* of the change.                                                          *)
(***************************************************************************)
\* The sender call the flush owes for the pair e under the tag deladd.
PairCall(docid, e, deladd) ==
    IF e[2].kind = "String"
    THEN CallFor(docid, "strings", << e[1], as_bytes(e[2].str) >>, deladd)
    ELSE CallFor(docid, "f64s", << e[1], Ordered16(e[2].f64) >>, deladd)

C23_RepeatedValueIsSentOnce ==
    (Returned /\ Cur[1].op \in {"Insertion", "Deletion"}) =>
        LET side  == IF Cur[1].op = "Deletion" THEN "del" ELSE "add"
            tag   == IF Cur[1].op = "Deletion" THEN "Deletion" ELSE "Addition"
            fn    == IF Cur[1].op = "Deletion" THEN "insert_del_u32" ELSE "insert_add_u32"
            docid == Cur[1].docid
            pairs == { e \in Emitted(Cur, side) : Reconciled(e[2]) }
            made(c) == Count({ i \in At(Cur, "send") :
                                 [op |-> Cur[i].op, bytes |-> Cur[i].bytes,
                                  raw |-> Cur[i].raw] = c })
            blocks(e) == UNION { Block(Cur, i) :
                                   i \in { j \in At(Cur, "emit") :
                                             << Cur[j].fid, Cur[j].value >> = e } }
            writes(e, key) == { j \in blocks(e) :
                                  /\ Cur[j].ev = "cache" /\ Cur[j].op = fn
                                  /\ Cur[j].res = "Ok" /\ Cur[j].docid = docid
                                  /\ [kind |-> Cur[j].kind, bytes |-> Cur[j].bytes] = key }
        IN  /\ Cardinality(At(Cur, "send")) = Cardinality(pairs)
            /\ \A e \in pairs :
                  /\ made(PairCall(docid, e, tag))
                       = Count({ x \in pairs : PairCall(docid, x, tag) = PairCall(docid, e, tag) })
                  /\ Count(writes(e, TypedKeyOf(e[1], e[2]))) = EmitCount(Cur, side, e)
                  /\ Count(writes(e, [kind |-> "Exists",
                                      bytes |-> << (e[1] \div 256) % 256, e[1] % 256 >>]))
                       = EmitCount(Cur, side, e)

\* An Insertion that emitted (3, "Red") twice and nothing else has returned:
\* the sender received one write_facet_string.
C23_Witness ==
    /\ Returned /\ Cur[1].op = "Insertion"
    /\ EmitCount(Cur, "add", <<3, VString(StrRed)>>) = 2
    /\ Len(sent) = 1 /\ sent[1].op = "write_facet_string"
    /\ Cardinality({ j \in At(Cur, "cache") : Cur[j].kind = "String" }) = 2
    /\ Cardinality({ j \in At(Cur, "cache") : Cur[j].kind = "Exists" }) = 2

(***************************************************************************)
(* C24. For one change, the flush never sends both a delete and a write    *)
(* for the same sender key bytes (fid_be, docid_be, then the suffix: the   *)
(* 16 bytes of a number, the normalized and truncated string), also when   *)
(* two different raw strings of the same field normalize or truncate to    *)
(* the same suffix.                                                        *)
(***************************************************************************)
C24_NoDeleteAndWriteOfOneKey ==
    \A i, j \in At(Cur, "send") :
        ~ \E field \in {"string", "f64"} :
              /\ Cur[i].op = "delete_facet_" \o field
              /\ Cur[j].op = "write_facet_" \o field
              /\ Cur[i].bytes = Cur[j].bytes

(***************************************************************************)
(* C25. At the end of the processing of any change, on success and on      *)
(* every error path (an error of the walker, an error of a cache           *)
(* insertion), each write (resp. delete) of a value the sender received    *)
(* for (fid, docid) corresponds to a write of the typed cache key of the   *)
(* same fid, value and docid with insert_add_u32 (resp. insert_del_u32)    *)
(* that succeeded during that change: the sender never receives a value    *)
(* whose typed cache key was not recorded.                                 *)
(***************************************************************************)
C25_SenderCallsHaveTheirCacheWrite ==
    \A b \in At(trace, "begin") :
        LET ch == ChangeFrom(b)
        IN  \A i \in At(ch, "send") :
                ch[i].res = "Ok" =>
                    \E j \in At(ch, "cache") :
                        /\ ch[j].res = "Ok"
                        /\ ch[j].docid = ch[i].docid
                        /\ ch[j].kind = (IF ch[i].op \in {"write_facet_string", "delete_facet_string"}
                                         THEN "String" ELSE "Number")
                        /\ ch[j].op = (IF ch[i].op \in {"write_facet_string", "write_facet_f64"}
                                       THEN "insert_add_u32" ELSE "insert_del_u32")
                        \* fid_be, then level 0, then the suffix of the sender key
                        /\ ch[j].bytes = SubSeq(ch[i].bytes, 1, 2) \o <<0>>
                                           \o SubSeq(ch[i].bytes, 7, Len(ch[i].bytes))

(***************************************************************************)
(* Reading the log of the calls of a Database.                             *)
(***************************************************************************)
\* The tree of the index name held a whole index: a schema and a word index.
HeldIndex(trees, name) ==
    LET tree == trees[index_name(name)]
    IN  tree.exists /\ tree.schema # "" /\ tree.word_index # ""

\* The calls of the log that returned an index for name.
Succeeded(name) ==
    { i \in 1..Len(db.log) :
        db.log[i].name = name /\ db.log[i].ret.kind \in {"Ok", "Some"} }

(***************************************************************************)
(* C26. Calls made one after the other. create_index(name, schema) called  *)
(* when an index of that name exists returns Err(SchemaDiffer) if the      *)
(* schema stored differs from schema, and the existing index if they are   *)
(* equal, and in both cases leaves every tree as it was, nothing set. When *)
(* the name has no tree it stores the schema and an empty word index in    *)
(* the tree it makes, registers the index in the opened map and returns    *)
(* it, and every open_index(name) that follows returns an index with that  *)
(* schema. open_index on a name that has no tree returns None and leaves   *)
(* the trees and the opened map as they were.                              *)
(***************************************************************************)
C26_CreateIndexChecksTheStoredSchema ==
    \A i \in 1..Len(db.log) :
        LET e == db.log[i]
            raw_name == index_name(e.name)
            before == e.pre.trees[raw_name]
        IN  /\ (e.fn = "create_index" /\ HeldIndex(e.pre.trees, e.name)) =>
                  /\ e.ret = IF before.schema # e.schema
                             THEN DbRet("Err", "", "SchemaDiffer")
                             ELSE DbRet("Ok", before.schema, "")
                  /\ e.post.trees = e.pre.trees
            /\ (e.fn = "create_index" /\ ~before.exists) =>
                  /\ e.ret = DbRet("Ok", e.schema, "")
                  /\ e.post.trees = [e.pre.trees EXCEPT
                                       ![raw_name] = Tree(TRUE, e.schema, "empty", 2)]
                  /\ e.name \in DOMAIN e.post.opened.map
                  /\ e.post.opened.map[e.name] = RawIndex(e.schema, raw_name)
                  /\ \A j \in i+1..Len(db.log) :
                        (db.log[j].fn = "open_index" /\ db.log[j].name = e.name) =>
                            db.log[j].ret = DbRet("Some", e.schema, "")
            /\ (e.fn = "open_index" /\ ~before.exists) =>
                  /\ e.ret = DbRet("None", "", "")
                  /\ e.post = e.pre

\* On a Database that held no tree for "b": create_index("b", S1) returned
\* the index, open_index("b") returned it, and create_index("b", S2)
\* returned Err(SchemaDiffer), the tree holding S1 still.
C26_Witness ==
    /\ Len(db.log) = 3
    /\ db.log[1].fn = "create_index" /\ db.log[1].name = "b" /\ db.log[1].schema = "S1"
    /\ ~db.log[1].pre.trees[index_name("b")].exists
    /\ db.log[1].ret = DbRet("Ok", "S1", "")
    /\ db.log[2].fn = "open_index" /\ db.log[2].name = "b"
    /\ db.log[2].ret = DbRet("Some", "S1", "")
    /\ db.log[3].fn = "create_index" /\ db.log[3].name = "b" /\ db.log[3].schema = "S2"
    /\ db.log[3].ret = DbRet("Err", "", "SchemaDiffer")
    /\ db.trees[index_name("b")] = Tree(TRUE, "S1", "empty", 2)

(***************************************************************************)
(* C27. Under any interleaving of concurrent create_index and open_index   *)
(* calls on clones of one Database, all the calls for one name that        *)
(* succeed return indexes with the same schema, that schema is the one     *)
(* stored under the key "schema" of the tree, and two create_index calls   *)
(* with different schemas never both succeed; an update of the opened map  *)
(* is never lost: the name a call registered stays in the map.             *)
(***************************************************************************)
\* Every name a call registered in the opened map is in it.
OpenedUpdatesAreNeverLost ==
    \A i \in 1..Len(db.log) :
        db.log[i].registered => db.log[i].name \in DOMAIN db.opened.map

C27_SuccessfulCallsAgreeOnTheSchema ==
    /\ \A name \in IndexNames :
          \A i, j \in Succeeded(name) :
              /\ db.log[i].ret.schema = db.log[j].ret.schema
              /\ db.log[i].ret.schema = db.trees[index_name(name)].schema
              /\ (db.log[i].fn = "create_index" /\ db.log[j].fn = "create_index") =>
                    db.log[i].schema = db.log[j].schema
    /\ OpenedUpdatesAreNeverLost

(***************************************************************************)
(* Reading what iter_vectors yielded.                                      *)
(***************************************************************************)
\* The names of the entries of a RawMap or of the embedding configs.
NamesOf(map) == { map[i][1] : i \in 1..Len(map) }

\* The names the database side of the document has an entry for.
DbNames ==
    IF ~vdoc.db.some THEN {}
    ELSE NamesOf(vdoc.db.embedding_config)
           \cup (IF vdoc.db.vectors_field.some THEN NamesOf(vdoc.db.vectors_field.vectors)
                 ELSE {})

\* Where iter_vectors yielded an Ok item of the name key.
OkNamed(key) ==
    { i \in 1..Len(vdoc.yielded) : vdoc.yielded[i].ok /\ vdoc.yielded[i].name = key }

(***************************************************************************)
(* C28, as the specification states it: an embedder name present in both   *)
(* the new document and the database is yielded by iter_vectors once, with *)
(* the new document's entry (never with the entry of the database), and    *)
(* this agrees with vectors_for_key, which returns the new document's      *)
(* entry for a key the new document has.                                   *)
(***************************************************************************)
C28_NameInBothIsYieldedOnceAsNew ==
    vdoc.it.done =>
        /\ \A key \in NamesOf(vdoc.new_doc.vectors) \cap DbNames :
              /\ Cardinality(OkNamed(key)) <= 1
              /\ \A i \in OkNamed(key) : vdoc.yielded[i].entry.embeddings[2] = "new_doc"
        /\ vdoc.lookup.key \in NamesOf(vdoc.new_doc.vectors) =>
              \A i \in OkNamed(vdoc.lookup.key) :
                  vdoc.lookup.ret = VecRet("Some", vdoc.yielded[i].entry, <<>>)

(***************************************************************************)
(* C28, as the code has it. iter_vectors yields every item of the new      *)
(* document first, in the new document's order, and then, in the order of  *)
(* the database side, its errors and exactly those of its entries whose    *)
(* name no Ok item of the new document had: errors are yielded and do not  *)
(* stop the iteration. A name whose entry of the new document parses is    *)
(* yielded once, with that entry. A name whose entry of the new document   *)
(* fails to parse is yielded as that error and then with every entry the   *)
(* database side has for it, while vectors_for_key returns the error.      *)
(* Apart from that vectors_for_key agrees with the iteration: Some(entry)  *)
(* is the entry of the first Ok item of that name, None means that no Ok   *)
(* item has the name, and an error it returns is among the items.          *)
(***************************************************************************)
C28_MergedIterationSkipsWhatTheNewDocumentYielded ==
    LET new == new_doc_items(vdoc)
        old == db_items(vdoc)
        Y == vdoc.yielded
        parsed == { new[i].name : i \in { j \in 1..Len(new) : new[j].ok } }
        unparsed == NamesOf(vdoc.new_doc.vectors) \ parsed
        all == new \o SelectSeq(old, LAMBDA x : ~x.ok \/ x.name \notin parsed)
        r == vdoc.lookup.ret
    IN  /\ Len(Y) <= Len(all) /\ Y = SubSeq(all, 1, Len(Y))
        /\ vdoc.it.done =>
              /\ Y = all
              /\ \A key \in parsed :
                    /\ Cardinality(OkNamed(key)) = 1
                    /\ \A i \in OkNamed(key) : Y[i].entry.embeddings[2] = "new_doc"
              /\ \A key \in unparsed :
                    /\ \E i \in 1..Len(Y) :
                          Y[i] = VecErr(<< "UserError::SerdeJson", "new_doc", key >>)
                    /\ \A j \in 1..Len(old) :
                          (old[j].ok /\ old[j].name = key) =>
                              \E i \in OkNamed(key) : Y[i] = old[j]
                    /\ vdoc.lookup.key = key =>
                          r = VecRet("Err", NoVectorEntry,
                                     << "UserError::SerdeJson", "new_doc", key >>)
              /\ vdoc.lookup.key # "" =>
                    /\ r.kind = "Some" =>
                          /\ OkNamed(vdoc.lookup.key) # {}
                          /\ \E i \in OkNamed(vdoc.lookup.key) :
                                /\ \A j \in OkNamed(vdoc.lookup.key) : i <= j
                                /\ Y[i].entry = r.entry
                    /\ r.kind = "None" => OkNamed(vdoc.lookup.key) = {}
                    /\ r.kind = "Err" => \E i \in 1..Len(Y) : ~Y[i].ok /\ Y[i].err = r.err

\* The new document has "small", which parses, and then "default", which
\* does not; the database has embedders of both names. iter_vectors yielded
\* the entry of "small" of the new document, the error, and the entry of
\* "default" of the database, and returned None; vectors_for_key("default")
\* returned the error.
C28_Witness ==
    /\ vdoc.it.done
    /\ vdoc.new_doc = NewDoc(TRUE, << <<"small", TRUE>>, <<"default", FALSE>> >>)
    /\ vdoc.db.some
    /\ vdoc.db.embedding_config = << <<"default", TRUE>>, <<"small", TRUE>> >>
    /\ vdoc.yielded =
          << VecOk("small", VectorEntry(FALSE, << "FromJson", "new_doc", "small" >>)),
             VecErr(<< "UserError::SerdeJson", "new_doc", "default" >>),
             VecOk("default", VectorEntry(TRUE, << "FromDb", "db", "default" >>)) >>
    /\ vdoc.lookup.key = "default" /\ vdoc.lookup.ret.kind = "Err"

====
